---- MODULE Spec2Model ----
(***************************************************************************)
(* Weather backend: the database-backed cache/lookup layer shared by the   *)
(* weather handlers of controllers/weather.controller.js, and the chat     *)
(* turn of processWeatherQuestion.                                         *)
(*                                                                         *)
(* Every handler is an async function; its awaits (geocoding, store        *)
(* lookup, upstream call, store write) are the points where the event      *)
(* loop may run another request, so each handler is modelled as the        *)
(* sequence of its synchronous segments.                                   *)
(***************************************************************************)
EXTENDS Integers, Sequences, FiniteSets, TLC

VARIABLES now, store, proc, issued, limit, workload, chat, chats, sub, xfer,
          ask, gate, hist, genRetry

vars == <<now, store, proc, issued, limit, workload, chat, chats, sub, xfer,
          ask, gate, hist, genRetry>>

(***************************************************************************)
(* Values                                                                  *)
(***************************************************************************)
\* JavaScript undefined / null / absent document field.
NULL == "null"

Truthy(x) == x # NULL /\ x # ""

\* a || b
Or2(a, b) == IF Truthy(a) THEN a ELSE b

\* How an async function ends: it returns a value, or an exception leaves it.
Returned(v) == [value |-> v]

Thrown(name) == [thrown |-> name]

IsThrown(v) == "thrown" \in DOMAIN v

(***************************************************************************)
(* Bounds                                                                  *)
(***************************************************************************)
\* Requests issued in one behaviour of the sequential specification.
MaxRequests == 2
\* Requests issued in one behaviour of the concurrent specification.
MaxConcRequests == 3
\* Chat turns in one behaviour of the chat specification.
MaxChatTurns == 2

Procs == {1, 2}

(***************************************************************************)
(* Request inputs                                                          *)
(***************************************************************************)
Endpoints ==
  {"current", "forecast", "future", "marine", "timezone", "alerts",
   "astronomy", "seven_day_forecast", "history", "notifications",
   "notification_detail"}

\* location / lat / lon of a request: a name the geocoder resolves to a
\* different canonical name, a name the geocoder does not know, and a
\* coordinate pair (the one the geocoder gives for the first name).
LocForms ==
  { [location |-> "Hanoi",    lat |-> NULL, lon |-> NULL],
    [location |-> "Atlantis", lat |-> NULL, lon |-> NULL],
    [location |-> NULL,       lat |-> "21", lon |-> "105"] }

\* A canonical name sent together with the coordinates of another place.
NameAndCoords == [location |-> "HaNoi_VN", lat |-> "10", lon |-> "106"]

Dates == {"2024-05-01", "2024-05-02"}
AlertIds == {"A1", "A2"}

NoAux == [days |-> NULL, date |-> NULL, dt |-> NULL, alertId |-> NULL]

\* The auxiliary parameters of a request to an endpoint: the first form
\* (days left to its default of 3), and a second value of the parameter.
AuxForm(ep, second) ==
  CASE ep = "forecast" -> [NoAux EXCEPT !.days = IF second THEN "5" ELSE NULL]
    [] ep \in {"future", "astronomy"} ->
         [NoAux EXCEPT !.date = IF second THEN "2024-05-02" ELSE "2024-05-01"]
    [] ep = "history" ->
         [NoAux EXCEPT !.dt = IF second THEN "2024-05-02" ELSE "2024-05-01"]
    [] ep = "notification_detail" ->
         [NoAux EXCEPT !.alertId = IF second THEN "A2" ELSE "A1"]
    [] OTHER -> NoAux

Request(ep, l, a) ==
  [ep |-> ep, q |-> NULL, location |-> l.location, lat |-> l.lat, lon |-> l.lon,
   days |-> a.days, date |-> a.date, dt |-> a.dt, alertId |-> a.alertId]

\* The requests issued: every endpoint with every location form; the second
\* auxiliary value with the resolvable name; name-and-coordinates for three
\* endpoints (for history it is the only form with coordinates the route
\* admits).
Requests ==
  { Request(ep, l, AuxForm(ep, FALSE)) : ep \in Endpoints, l \in LocForms }
  \cup { Request(ep, [location |-> "Hanoi", lat |-> NULL, lon |-> NULL], AuxForm(ep, TRUE))
         : ep \in {"forecast", "future", "astronomy", "history", "notification_detail"} }
  \cup { Request(ep, NameAndCoords, AuxForm(ep, FALSE))
         : ep \in {"current", "forecast", "history"} }

NoRequest ==
  [ep |-> NULL, q |-> NULL, location |-> NULL, lat |-> NULL, lon |-> NULL,
   days |-> NULL, date |-> NULL, dt |-> NULL, alertId |-> NULL]

(***************************************************************************)
(* External collaborators                                                  *)
(***************************************************************************)
\* The geocoding provider's answer for a text: the list of features, each
\* with its formatted name and coordinates.  searchLocation maps the
\* features to {name, lat, lon} and returns [] when there is none.
searchLocation(query) ==
  CASE query = "Hanoi"    -> << [name |-> "HaNoi_VN", lat |-> "21", lon |-> "105"] >>
    [] query = "HaNoi_VN" -> << [name |-> "HaNoi_VN", lat |-> "21", lon |-> "105"] >>
    [] OTHER              -> << >>

NoLocation == [name |-> NULL, lat |-> NULL, lon |-> NULL]

\* The coordinate texts requests carry, and `${lat},${lon}` of each pair.
LatTexts == {"21", "10", "-90", "90", "-91", "91", "abc"}

LonTexts == {"105", "106", "-180", "180", "-181", "181", "abc"}

CoordTexts ==
  (<<"21", "105">> :> "21,105") @@ (<<"21", "106">> :> "21,106") @@ (<<"21", "-180">> :> "21,-180") @@ (<<"21", "180">> :> "21,180") @@
  (<<"21", "-181">> :> "21,-181") @@ (<<"21", "181">> :> "21,181") @@ (<<"21", "abc">> :> "21,abc") @@
  (<<"10", "105">> :> "10,105") @@ (<<"10", "106">> :> "10,106") @@ (<<"10", "-180">> :> "10,-180") @@ (<<"10", "180">> :> "10,180") @@
  (<<"10", "-181">> :> "10,-181") @@ (<<"10", "181">> :> "10,181") @@ (<<"10", "abc">> :> "10,abc") @@
  (<<"-90", "105">> :> "-90,105") @@ (<<"-90", "106">> :> "-90,106") @@ (<<"-90", "-180">> :> "-90,-180") @@ (<<"-90", "180">> :> "-90,180") @@
  (<<"-90", "-181">> :> "-90,-181") @@ (<<"-90", "181">> :> "-90,181") @@ (<<"-90", "abc">> :> "-90,abc") @@
  (<<"90", "105">> :> "90,105") @@ (<<"90", "106">> :> "90,106") @@ (<<"90", "-180">> :> "90,-180") @@ (<<"90", "180">> :> "90,180") @@
  (<<"90", "-181">> :> "90,-181") @@ (<<"90", "181">> :> "90,181") @@ (<<"90", "abc">> :> "90,abc") @@
  (<<"-91", "105">> :> "-91,105") @@ (<<"-91", "106">> :> "-91,106") @@ (<<"-91", "-180">> :> "-91,-180") @@ (<<"-91", "180">> :> "-91,180") @@
  (<<"-91", "-181">> :> "-91,-181") @@ (<<"-91", "181">> :> "-91,181") @@ (<<"-91", "abc">> :> "-91,abc") @@
  (<<"91", "105">> :> "91,105") @@ (<<"91", "106">> :> "91,106") @@ (<<"91", "-180">> :> "91,-180") @@ (<<"91", "180">> :> "91,180") @@
  (<<"91", "-181">> :> "91,-181") @@ (<<"91", "181">> :> "91,181") @@ (<<"91", "abc">> :> "91,abc") @@
  (<<"abc", "105">> :> "abc,105") @@ (<<"abc", "106">> :> "abc,106") @@ (<<"abc", "-180">> :> "abc,-180") @@ (<<"abc", "180">> :> "abc,180") @@
  (<<"abc", "-181">> :> "abc,-181") @@ (<<"abc", "181">> :> "abc,181") @@ (<<"abc", "abc">> :> "abc,abc")

\* `${lat},${lon}` (absent parts print as "undefined").
CoordStr(lat, lon) ==
  IF <<lat, lon>> \in DOMAIN CoordTexts THEN CoordTexts[<<lat, lon>>]
  ELSE "undefined,undefined"

\* Outcomes of one upstream weather call (after the transport's retries).
UpOutcomes(ep) ==
  IF ep = "notification_detail"
  THEN {"ok", "ok_no_alert", "http_error", "net_error"}
  ELSE {"ok", "http_error", "net_error"}

\* The status an upstream-reported error carries.
UpstreamErrorStatus == 400

\* city.name as the secondary provider reports it for the 5-day forecast:
\* the provider's own name for the place, which may or may not be the
\* geocoder's formatted name.
OwmCityNames == {"HaNoi_VN", "Hanoi_OWM"}

\* Outcomes of one store operation.
DbOutcomes == {"ok", "throw"}

(***************************************************************************)
(* Per-endpoint configuration of the handlers                              *)
(***************************************************************************)
\* Cache durations in hours.
CACHE_DURATIONS(key) ==
  CASE key = "current"   -> 1
    [] key = "forecast"  -> 3
    [] key = "future"    -> 24
    [] key = "marine"    -> 6
    [] key = "astronomy" -> 24
    [] key = "timezone"  -> 24
    [] key = "alerts"    -> 1
    [] key = "history"   -> 24

\* The CACHE_DURATIONS key each handler passes to findInDatabase.
DurationKey(ep) ==
  CASE ep = "seven_day_forecast" -> "forecast"
    [] ep \in {"notifications", "notification_detail"} -> "alerts"
    [] OTHER -> ep

\* The mongoose model each handler reads and writes.
ModelOf(ep) ==
  CASE ep = "marine"    -> "Marine"
    [] ep = "astronomy" -> "Astronomy"
    [] ep = "history"   -> "History"
    [] OTHER            -> "Weather"

\* The type field of the handler's dbQuery (getAstronomy's has none).
QueryType(ep) == IF ep = "astronomy" THEN NULL ELSE ep

\* The type field of the document the handler saves (getMarineWeather and
\* getAstronomy save none).
SavedType(ep) == IF ep \in {"marine", "astronomy"} THEN NULL ELSE ep

\* const { location, days = 3, date, ... } = req.query, after the route's
\* middleware: the effective parameters of the handler.
EffDays(r) == IF r.ep = "forecast" THEN (IF r.days = NULL THEN "3" ELSE r.days) ELSE NULL

EffDate(r) ==
  CASE r.ep = "history" -> Or2(r.dt, r.date)
    [] r.ep \in {"future", "astronomy"} -> r.date
    [] OTHER -> NULL

EffAlertId(r) == IF r.ep = "notification_detail" THEN r.alertId ELSE NULL

HasCoords(r) == Truthy(r.lat) /\ Truthy(r.lon)

\* A queryParam that prefers the name over the coordinates.
queryParamNameFirst(r) ==
  IF Truthy(r.location) THEN r.location ELSE CoordStr(r.lat, r.lon)

\* const queryParam = lat && lon ? `${lat},${lon}` : location;
queryParam(r) == IF HasCoords(r) THEN CoordStr(r.lat, r.lon) ELSE r.location

\* locationData ? locationData[0].name : location
NameOrLocation(r, ld) == IF ld # NoLocation THEN ld.name ELSE r.location

\* The handler's dbQuery: the fields a document must equal (NULL: the query
\* has no such field).
dbQuery(r, ld) ==
  [type      |-> QueryType(r.ep),
   days      |-> EffDays(r),
   date      |-> EffDate(r),
   alertId   |-> EffAlertId(r),
   latitude  |-> IF HasCoords(r) THEN r.lat ELSE NULL,
   longitude |-> IF HasCoords(r) THEN r.lon ELSE NULL,
   city      |-> IF HasCoords(r) THEN NULL ELSE NameOrLocation(r, ld)]

\* The parameters of the handler's upstream call, beside key and lang.
UpstreamParams(r, ld) ==
  IF r.ep = "seven_day_forecast"
  THEN [q   |-> IF HasCoords(r) THEN NULL ELSE NameOrLocation(r, ld),
        lat |-> IF HasCoords(r) THEN r.lat ELSE NULL,
        lon |-> IF HasCoords(r) THEN r.lon ELSE NULL,
        days |-> NULL, dt |-> NULL]
  ELSE [q   |-> queryParam(r), lat |-> NULL, lon |-> NULL,
        days |-> EffDays(r), dt |-> EffDate(r)]

\* The provider's answer to a call: what was asked, when, and (5-day
\* forecast) the provider's name of the place.
UpstreamData(ep, params, at, cityName) ==
  [ep |-> ep, params |-> params, at |-> at, city |-> cityName]

NoParams == [q |-> NULL, lat |-> NULL, lon |-> NULL, days |-> NULL, dt |-> NULL]

NoData == [ep |-> NULL, params |-> NoParams, at |-> 0, city |-> NULL]

\* The city field of the document the handler saves.
SavedCity(r, ld, data) ==
  CASE r.ep \in {"current", "alerts", "notifications", "notification_detail"} ->
         IF ld # NoLocation THEN ld.name ELSE Or2(r.location, CoordStr(r.lat, r.lon))
    [] r.ep = "seven_day_forecast" ->
         Or2(data.city, Or2(NameOrLocation(r, ld), CoordStr(r.lat, r.lon)))
    [] OTHER -> NameOrLocation(r, ld)

\* The document the handler passes to saveToDatabase.
SavedDoc(r, ld, data, t) ==
  [model     |-> ModelOf(r.ep),
   type      |-> SavedType(r.ep),
   time      |-> t,
   longitude |-> Or2(r.lon, IF ld # NoLocation THEN ld.lon ELSE NULL),
   latitude  |-> Or2(r.lat, IF ld # NoLocation THEN ld.lat ELSE NULL),
   city      |-> SavedCity(r, ld, data),
   location  |-> Or2(r.location, CoordStr(r.lat, r.lon)),
   days      |-> EffDays(r),
   date      |-> EffDate(r),
   alertId   |-> EffAlertId(r),
   deviceId  |-> NULL,
   active    |-> NULL,
   data      |-> data]

(***************************************************************************)
(* The document store                                                      *)
(***************************************************************************)
QueryFields == {"type", "days", "date", "alertId", "latitude", "longitude", "city"}

\* A document matches a filter when every field of the filter is a field of
\* the document with an equal value.
Matches(doc, query) ==
  \A f \in QueryFields : query[f] # NULL => doc[f] = query[f]

\* A window that excludes the document fetched exactly timeWindow hours ago.
InWindowStrict(doc, t, timeWindow) == doc.time > t - timeWindow

\* time: { $gte: timeAgo } with timeAgo = now - timeWindow hours.
InWindow(doc, t, timeWindow) == doc.time >= t - timeWindow

\* A findOne that resolves to null when more than one document matches.
findInDatabaseUnique(docs, Model, query, t, timeWindow) ==
  LET cand == { i \in 1..Len(docs) :
                  /\ docs[i].model = Model
                  /\ Matches(docs[i], query)
                  /\ InWindow(docs[i], t, timeWindow) }
  IN  IF Cardinality(cand) = 1 THEN cand ELSE {}

\* A findOne without the sort: any matching document inside the window.
findInDatabaseUnsorted(docs, Model, query, t, timeWindow) ==
  { i \in 1..Len(docs) :
      /\ docs[i].model = Model
      /\ Matches(docs[i], query)
      /\ InWindow(docs[i], t, timeWindow) }

\* Model.findOne({...query, time: {$gte: timeAgo}}).sort({time: -1}): the
\* indexes of the documents findOne may return (the newest matching ones;
\* empty: findOne resolves to null).
findInDatabase(docs, Model, query, t, timeWindow) ==
  LET cand == { i \in 1..Len(docs) :
                  /\ docs[i].model = Model
                  /\ Matches(docs[i], query)
                  /\ InWindow(docs[i], t, timeWindow) }
  IN  { i \in cand : \A j \in cand : docs[j].time <= docs[i].time }

\* A create that inserts the document twice.
saveToDatabaseTwice(docs, doc) == Append(Append(docs, doc), doc)

\* Model.create(data)
saveToDatabase(docs, doc) == Append(docs, doc)

(***************************************************************************)
(* Validation                                                              *)
(***************************************************************************)
\* parseFloat / parseInt of the number texts the requests carry (a text that
\* is no number parses to NaN: it has no entry).
NumberOf ==
  ("21" :> 21) @@ ("105" :> 105) @@ ("10" :> 10) @@ ("106" :> 106) @@
  ("-90" :> -90) @@ ("90" :> 90) @@ ("-91" :> -91) @@ ("91" :> 91) @@
  ("-180" :> -180) @@ ("180" :> 180) @@ ("-181" :> -181) @@ ("181" :> 181) @@
  ("0" :> 0) @@ ("1" :> 1) @@ ("3" :> 3) @@ ("5" :> 5) @@ ("14" :> 14) @@
  ("15" :> 15) @@ ("20" :> 20)

IsNaN(s) == s \notin DOMAIN NumberOf

\* The date texts requests carry: new Date(text) as a day number yyyymmdd
\* (a text that is no date, here "2024-13-45" and "01-05-2024", parses to
\* an Invalid Date: it has no entry).
DateOf ==
  ("2024-05-01" :> 20240501) @@ ("2024-05-02" :> 20240502) @@
  ("2010-01-01" :> 20100101) @@ ("2009-12-31" :> 20091231) @@
  ("2005-01-01" :> 20050101)

\* /^\d{4}-\d{2}-\d{2}$/
DateRegexTest(s) == s \in DOMAIN DateOf \cup {"2024-13-45"}

\* A date check without the floor.
BeforeMinDateNever(s) == FALSE

\* requestDate < minDate, minDate = new Date("2010-01-01"); a comparison
\* with an Invalid Date is false.
BeforeMinDate(s) == s \in DOMAIN DateOf /\ DateOf[s] < DateOf["2010-01-01"]

Passed == [status |-> 200, error |-> NULL]

Rejected(status, error) == [status |-> status, error |-> error]

\* The route's validateQuery middleware.
validateQuery(r) ==
  CASE (Truthy(r.lat) /\ ~Truthy(r.lon)) \/ (~Truthy(r.lat) /\ Truthy(r.lon)) ->
         Rejected(400, "Invalid coordinates")
    [] ~Truthy(Or2(r.q, r.location)) /\ (~Truthy(r.lat) \/ ~Truthy(r.lon)) ->
         Rejected(400, "Location is required")
    [] HasCoords(r) /\ (IsNaN(r.lat) \/ IsNaN(r.lon)) ->
         Rejected(400, "Invalid coordinates")
    [] HasCoords(r) /\ (NumberOf[r.lat] < -90 \/ NumberOf[r.lat] > 90) ->
         Rejected(400, "Invalid latitude")
    [] HasCoords(r) /\ (NumberOf[r.lon] < -180 \/ NumberOf[r.lon] > 180) ->
         Rejected(400, "Invalid longitude")
    [] OTHER -> Passed

\* The history route's validateHistoryQuery middleware.
validateHistoryQuery(r) ==
  CASE ~Truthy(r.q) /\ ~Truthy(r.location) -> Rejected(400, "Missing required parameter")
    [] ~Truthy(r.dt)        -> Rejected(400, "Missing required parameter")
    [] ~DateRegexTest(r.dt) -> Rejected(400, "Invalid date format")
    [] BeforeMinDate(r.dt)  -> Rejected(400, "Invalid date")
    [] OTHER -> Passed

\* req.query as the middleware leaves it for the handler: validateQuery adds
\* location from q and date from dt when they are absent;
\* validateHistoryQuery sets location: q || location and date: dt.
RewriteQuery(r) ==
  IF r.ep = "history"
  THEN [r EXCEPT !.location = Or2(r.q, r.location), !.date = r.dt]
  ELSE [r EXCEPT !.location = IF Truthy(r.q) /\ ~Truthy(r.location) THEN r.q ELSE @,
                 !.date = IF Truthy(r.dt) /\ ~Truthy(r.date) THEN r.dt ELSE @]

\* validateLocation(location, lat, lon): the message it throws, or NULL.
validateLocation(location, lat, lon) ==
  CASE Truthy(location) -> NULL
    [] ~Truthy(lat) \/ ~Truthy(lon) -> "Location or coordinates (lat,lon) is required"
    [] IsNaN(lat) \/ IsNaN(lon) -> "Latitude and longitude must be numbers"
    [] NumberOf[lat] < -90 \/ NumberOf[lat] > 90 -> "Latitude must be between -90 and 90"
    [] NumberOf[lon] < -180 \/ NumberOf[lon] > 180 -> "Longitude must be between -180 and 180"
    [] OTHER -> NULL

\* validateDate(date): the message it throws, or NULL.
validateDate(date) ==
  CASE ~Truthy(date) -> "Date is required"
    [] ~DateRegexTest(date) -> "Date must be in YYYY-MM-DD format"
    [] OTHER -> NULL

\* validateDays(days): the message it throws, or NULL.
validateDays(days) ==
  IF Truthy(days) /\ (IsNaN(days) \/ NumberOf[days] < 1 \/ NumberOf[days] > 14)
  THEN "Days must be a number between 1 and 14"
  ELSE NULL

\* The handler's checks before its first await: the response they produce,
\* or Passed.  A thrown validation error reaches handleError, which answers
\* error.response?.status || 500.
HandlerChecks(r) ==
  LET loc == IF r.ep = "seven_day_forecast"
             THEN (IF ~Truthy(r.location) /\ (~Truthy(r.lat) \/ ~Truthy(r.lon))
                   THEN "Location or coordinates (lat,lon) is required" ELSE NULL)
             ELSE validateLocation(r.location, r.lat, r.lon)
      aux == CASE r.ep = "forecast" -> validateDays(EffDays(r))
               [] r.ep \in {"future", "history"} -> validateDate(EffDate(r))
               [] r.ep = "astronomy" -> (IF Truthy(r.date) THEN validateDate(r.date) ELSE NULL)
               [] OTHER -> NULL
  IN  CASE r.ep = "notification_detail" /\ ~Truthy(r.alertId) ->
             Rejected(400, "Alert ID is required")
        [] loc # NULL -> Rejected(500, loc)
        [] aux # NULL -> Rejected(500, aux)
        [] OTHER -> Passed

\* The route's middleware.
Middleware(r) ==
  IF r.ep = "history" THEN validateHistoryQuery(r) ELSE validateQuery(r)

\* Middleware, then the handler's own checks on the query it left.
Validate(r) ==
  IF Middleware(r) # Passed THEN Middleware(r) ELSE HandlerChecks(RewriteQuery(r))

\* The sampled clock values (hours) of a behaviour: the start, and for every
\* endpoint requested the instants one freshness window and one window plus
\* an hour after the start, so that documents of age 0, exactly the window
\* and beyond the window are all looked up.
ClockValues(reqs) ==
  {0} \cup UNION { { CACHE_DURATIONS(DurationKey(r.ep)),
                     CACHE_DURATIONS(DurationKey(r.ep)) + 1 } : r \in reqs }

(***************************************************************************)
(* State of one request being handled                                      *)
(***************************************************************************)
NoResponse == [status |-> 0, error |-> NULL, data |-> NoData, from |-> NULL]

\* A hit answered without the stored payload.
DbResponseNoPayload(data) ==
  [status |-> 200, error |-> NULL, data |-> NoData, from |-> "database"]

\* res.json({message: "... retrieved from database", data})
DbResponse(data) == [status |-> 200, error |-> NULL, data |-> data, from |-> "database"]

\* res.json({message: "... retrieved from API and saved to database", data})
ApiResponse(data) == [status |-> 200, error |-> NULL, data |-> data, from |-> "api"]

ErrorResponse(status, error) ==
  [status |-> status, error |-> error, data |-> NoData, from |-> NULL]

\* handleError: res.status(error.response?.status || 500); the 7-day handler
\* answers res.status(500) for every error.
handleError(ep, upstreamStatus, error) ==
  IF ep = "seven_day_forecast"
  THEN ErrorResponse(500, error)
  ELSE ErrorResponse(IF upstreamStatus # 0 THEN upstreamStatus ELSE 500, error)

\* pc: the await the handler is suspended at.  geo, look, up, wr count the
\* geocoding calls, store lookups, upstream weather calls and documents
\* written by the request; key is its dbQuery and params the parameters of
\* its upstream call; lookRes, lookAt, lookLen and hit record what its store
\* lookup saw, upRes and saveRes how the upstream call and the write ended,
\* geoRes how the geocoding call ended (where its failures are modelled),
\* ai counts the generative-language calls the handler made.
IdleProc ==
  [pc |-> "idle", rq |-> NoRequest, ld |-> NoLocation, data |-> NoData,
   doc |-> SavedDoc(NoRequest, NoLocation, NoData, 0),
   resp |-> NoResponse, geo |-> 0, look |-> 0, up |-> 0, wr |-> 0,
   lookRes |-> NULL, lookAt |-> 0, lookLen |-> 0, hit |-> 0,
   key |-> dbQuery(NoRequest, NoLocation), params |-> NoParams,
   upRes |-> NULL, saveRes |-> NULL, geoRes |-> NULL, ai |-> 0]

(***************************************************************************)
(* State of the chat turn being handled                                    *)
(***************************************************************************)
\* What analyzeQuestion returns, as far as processWeatherQuestion reads it:
\* the location it names (or null), whether it carries a time object,
\* time.isHistory, and whether time.type is "hourly".
Analyses ==
  { a \in [location : {NULL, "Hanoi", "Atlantis"}, hasTime : BOOLEAN,
           isHistory : BOOLEAN, hourly : BOOLEAN] :
      /\ a.isHistory => a.hasTime
      /\ a.hourly => (a.hasTime /\ ~a.isHistory) }

NoAnalysis == [location |-> NULL, hasTime |-> TRUE, isHistory |-> FALSE, hourly |-> FALSE]

\* The upstream calls of a chat turn, in the order processWeatherQuestion
\* makes them.  (The future call is guarded by daysDiff, the difference of
\* the targetDate string and a Date: NaN, so the guard is never true.)
ChatCalls(analysis) ==
  (IF analysis.isHistory THEN <<"history">> ELSE << >>)
    \o <<"current", "forecast", "astronomy", "marine", "timezone", "alerts">>

NoChatResponse == [status |-> 0, answer |-> NULL, saved |-> FALSE]

\* pc: the await the turn is suspended at.  city and location are the
\* function's variables of that name; geo counts the geocoding calls, up the
\* upstream weather calls, upq collects their q parameters, got the report
\* types that returned data, step the index of the next upstream call;
\* gen is what the composer's generateWithRetry call returned or threw and
\* answer the variable of that name.
IdleChat ==
  [pc |-> "idle", question |-> NULL, city |-> NULL, sessionId |-> NULL,
   analysis |-> NoAnalysis, location |-> NoLocation,
   geo |-> 0, geoEmpty |-> FALSE, up |-> 0, upq |-> {}, got |-> {}, step |-> 1,
   gen |-> Returned(NULL), answer |-> NULL,
   resp |-> NoChatResponse]

(***************************************************************************)
(* State of the subscription handlers and of one upstream transfer         *)
(***************************************************************************)
\* The response of the last subscribe / unsubscribe request.
NoSubResponse ==
  [op |-> NULL, status |-> 0, error |-> NULL, deviceId |-> NULL,
   query |-> NULL, location |-> NULL]

\* One axios request with its retries: how each attempt made so far ended,
\* config.retry, config.retryDelay and config.retryCount, the milliseconds
\* waited before retries, and the outcome handed to the caller.
IdleXfer ==
  [pc |-> "idle", via |-> NULL, retry |-> 0, retryDelay |-> 0, retryCount |-> 0,
   attempts |-> << >>, waited |-> 0, result |-> NULL]

(***************************************************************************)
(* State of the question resolver, of the seven-day plausibility gate and  *)
(* of the chat-history handler                                             *)
(***************************************************************************)
\* One call of analyzeQuestion: the question, the generative model's
\* behaviour, and what the call returned or threw.
IdleAsk == [pc |-> "idle", question |-> NULL, ai |-> NULL, out |-> NULL]

\* One run of the seven-day extrapolation: the aggregated real days, the
\* generative model's reply and the forecast the handler builds.
IdleGate == [pc |-> "idle", days |-> << >>, ai |-> NULL, out |-> NULL]

\* One chat-history request: its sessionId, the number of store reads it
\* made, how many chat records existed when it read, and the status and
\* data of its response.
IdleHist ==
  [pc |-> "idle", sessionId |-> NULL, reads |-> 0, readLen |-> 0, status |-> 0,
   history |-> << >>]

\* One generateWithRetry call: where it stands, the loop index i, the
\* attempts made (how each ended and on which client it ran), the backoff
\* delays waited (ms), whether initGemini was called again and after how
\* many attempts, and what the call returned or threw.
IdleGenRetry ==
  [pc |-> "idle", i |-> 0, attempts |-> << >>, waits |-> << >>,
   reinit |-> NULL, reinitAfter |-> 0, result |-> Returned(NULL)]

Init ==
  /\ now = 0
  /\ store = << >>
  /\ proc = [p \in Procs |-> IdleProc]
  /\ issued = 0
  /\ limit = MaxRequests
  /\ \E a, b \in Requests : workload = {a, b}
  /\ chat = IdleChat
  /\ chats = << >>
  /\ sub = NoSubResponse
  /\ xfer = IdleXfer
  /\ ask = IdleAsk /\ gate = IdleGate /\ hist = IdleHist
  /\ genRetry = IdleGenRetry

(***************************************************************************)
(* The weather handlers                                                    *)
(***************************************************************************)
\* A handler that geocodes the name before it validates the rest.
StartGeocodeFirst(p, r) ==
  /\ proc[p].pc \in {"idle", "done"}
  /\ issued < limit
  /\ r \in workload
  /\ issued' = issued + 1
  /\ LET v == Validate(r)
     IN  proc' = [proc EXCEPT ![p] =
           IF v # Passed
           THEN [IdleProc EXCEPT !.pc = "done", !.rq = r,
                                 !.geo = IF Truthy(r.location) THEN 1 ELSE 0,
                                 !.resp = ErrorResponse(v.status, v.error)]
           ELSE [IdleProc EXCEPT !.rq = RewriteQuery(r),
                                 !.pc = IF ~Truthy(r.lat) \/ ~Truthy(r.lon)
                                        THEN "geocode" ELSE "lookup"]]
  /\ UNCHANGED <<now, store, limit, workload, chat, chats, sub, xfer, ask, gate, hist, genRetry>>

\* The request arrives: middleware and the handler's synchronous checks, up
\* to the first await (searchLocation for a name, findInDatabase for
\* coordinates).
Start(p, r) ==
  /\ proc[p].pc \in {"idle", "done"}
  /\ issued < limit
  /\ r \in workload
  /\ issued' = issued + 1
  /\ LET v == Validate(r)
     IN  proc' = [proc EXCEPT ![p] =
           IF v # Passed
           THEN [IdleProc EXCEPT !.pc = "done", !.rq = r,
                                 !.resp = ErrorResponse(v.status, v.error)]
           ELSE [IdleProc EXCEPT !.rq = RewriteQuery(r),
                                 !.pc = IF ~Truthy(r.lat) \/ ~Truthy(r.lon)
                                        THEN "geocode" ELSE "lookup"]]
  /\ UNCHANGED <<now, store, limit, workload, chat, chats, sub, xfer, ask, gate, hist, genRetry>>

\* A geocoding step that goes on to the lookup with the raw name when the
\* geocoder returns nothing.
GeocodeUnchecked(p) ==
  /\ proc[p].pc = "geocode"
  /\ LET pr  == proc[p]
         res == searchLocation(pr.rq.location)
     IN  proc' = [proc EXCEPT ![p] =
           [pr EXCEPT !.geo = @ + 1, !.pc = "lookup",
                      !.ld = IF Len(res) = 0 THEN NoLocation ELSE res[1]]]
  /\ UNCHANGED <<now, store, issued, limit, workload, chat, chats, sub, xfer, ask, gate, hist, genRetry>>

\* locationData = await searchLocation(location); zero results throw
\* "Location not found".
Geocode(p) ==
  /\ proc[p].pc = "geocode"
  /\ LET pr  == proc[p]
         res == searchLocation(pr.rq.location)
     IN  proc' = [proc EXCEPT ![p] =
           IF Len(res) = 0
           THEN [pr EXCEPT !.geo = @ + 1, !.pc = "done",
                           !.resp = handleError(pr.rq.ep, 0, "Location not found")]
           ELSE [pr EXCEPT !.geo = @ + 1, !.pc = "lookup", !.ld = res[1]]]
  /\ UNCHANGED <<now, store, issued, limit, workload, chat, chats, sub, xfer, ask, gate, hist, genRetry>>

\* existingData = await findInDatabase(Model, dbQuery, CACHE_DURATIONS.x).
\* Only getWeatherHistory catches a lookup that throws.
Lookup(p, outcome) ==
  /\ proc[p].pc = "lookup"
  /\ LET pr    == proc[p]
         r     == pr.rq
         found == findInDatabase(store, ModelOf(r.ep), dbQuery(r, pr.ld), now,
                                 CACHE_DURATIONS(DurationKey(r.ep)))
         seen  == [pr EXCEPT !.look = @ + 1, !.lookAt = now, !.lookLen = Len(store),
                             !.key = dbQuery(r, pr.ld)]
     IN  CASE outcome = "throw" /\ r.ep = "history" ->
                proc' = [proc EXCEPT ![p] = [seen EXCEPT !.lookRes = "threw", !.pc = "call"]]
           [] outcome = "throw" /\ r.ep # "history" ->
                proc' = [proc EXCEPT ![p] =
                  [seen EXCEPT !.lookRes = "threw", !.pc = "done",
                               !.resp = handleError(r.ep, 0, "Database error")]]
           [] outcome = "ok" /\ found = {} ->
                proc' = [proc EXCEPT ![p] = [seen EXCEPT !.lookRes = "miss", !.pc = "call"]]
           [] outcome = "ok" /\ found # {} ->
                \E i \in found :
                  proc' = [proc EXCEPT ![p] =
                    [seen EXCEPT !.lookRes = "hit", !.hit = i, !.pc = "done",
                                 !.resp = DbResponse(store[i].data)]]
  /\ UNCHANGED <<now, store, issued, limit, workload, chat, chats, sub, xfer, ask, gate, hist, genRetry>>

\* The model.generateContent calls a handler makes between its upstream
\* call and its write: translateAlert and the additional-info prompt for a
\* notification detail, the two-day prediction for the 7-day forecast,
\* translateAlert of the alert for the notifications list.
GenerativeCalls(ep) ==
  CASE ep = "notification_detail" -> 2
    [] ep \in {"seven_day_forecast", "notifications"} -> 1
    [] OTHER -> 0

\* A detail handler that goes on to translate, analyse and save when the
\* alert is not in the upstream answer.
AlertMissingIgnored(sent, data, doc) ==
  [sent EXCEPT !.pc = "save", !.data = data, !.doc = doc,
               !.ai = GenerativeCalls("notification_detail")]

\* const alert = alerts.find((a) => a.alert_id === alertId); if (!alert)
\* return res.status(404): before translateAlert, the prompt and the write.
AlertMissing(sent, data, doc) ==
  [sent EXCEPT !.pc = "done", !.resp = ErrorResponse(404, "Alert not found")]

\* data = await callWeatherAPI(endpoint, params) (axios.get for the 7-day
\* forecast); on success the handler builds the document to save.
Call(p, outcome, cityName) ==
  /\ proc[p].pc = "call"
  /\ outcome \in UpOutcomes(proc[p].rq.ep)
  /\ cityName \in (IF proc[p].rq.ep = "seven_day_forecast" THEN OwmCityNames ELSE {NULL})
  /\ LET pr   == proc[p]
         r    == pr.rq
         data == UpstreamData(r.ep, UpstreamParams(r, pr.ld), now, cityName)
         sent == [pr EXCEPT !.up = @ + 1, !.upRes = outcome,
                            !.params = UpstreamParams(r, pr.ld)]
     IN  proc' = [proc EXCEPT ![p] =
           CASE outcome = "ok" ->
                  [sent EXCEPT !.pc = "save", !.data = data,
                               !.doc = SavedDoc(r, pr.ld, data, now),
                               !.ai = GenerativeCalls(r.ep)]
             [] outcome = "ok_no_alert" ->
                  AlertMissing(sent, data, SavedDoc(r, pr.ld, data, now))
             [] outcome = "http_error" ->
                  [sent EXCEPT !.pc = "done",
                               !.resp = handleError(r.ep, UpstreamErrorStatus, "Upstream error")]
             [] outcome = "net_error" ->
                  [sent EXCEPT !.pc = "done",
                               !.resp = handleError(r.ep, 0, "Network error")]]
  /\ UNCHANGED <<now, store, issued, limit, workload, chat, chats, sub, xfer, ask, gate, hist, genRetry>>

\* await saveToDatabase(Model, {...}); then res.json({..., data}).  Only
\* getWeatherHistory catches a write that throws.
Save(p, outcome) ==
  /\ proc[p].pc = "save"
  /\ LET pr == proc[p]
     IN  CASE outcome = "ok" ->
                /\ store' = saveToDatabase(store, pr.doc)
                /\ proc' = [proc EXCEPT ![p] =
                     [pr EXCEPT !.wr = @ + 1, !.saveRes = "ok", !.pc = "done",
                                !.resp = ApiResponse(pr.data)]]
           [] outcome = "throw" /\ pr.rq.ep = "history" ->
                /\ store' = store
                /\ proc' = [proc EXCEPT ![p] =
                     [pr EXCEPT !.saveRes = "threw", !.pc = "done",
                                !.resp = ApiResponse(pr.data)]]
           [] outcome = "throw" /\ pr.rq.ep # "history" ->
                /\ store' = store
                /\ proc' = [proc EXCEPT ![p] =
                     [pr EXCEPT !.saveRes = "threw", !.pc = "done",
                                !.resp = handleError(pr.rq.ep, 0, "Database error")]]
  /\ UNCHANGED <<now, issued, limit, workload, chat, chats, sub, xfer, ask, gate, hist, genRetry>>

\* Time passes, in hours.  A handler's awaits last seconds (every upstream
\* call is bounded by the 10 s timeout), so the sampled clock advances
\* between requests.
Tick ==
  /\ \A p \in Procs : proc[p].pc \in {"idle", "done"}
  /\ \E t \in ClockValues(workload) : t > now /\ now' = t
  /\ UNCHANGED <<store, proc, issued, limit, workload, chat, chats, sub, xfer, ask, gate, hist, genRetry>>

\* One request at a time.
Next ==
  \/ \E r \in Requests : Start(1, r)
  \/ Geocode(1)
  \/ \E o \in DbOutcomes : Lookup(1, o)
  \/ \E o \in {"ok", "ok_no_alert", "http_error", "net_error"}, c \in OwmCityNames \cup {NULL} :
       Call(1, o, c)
  \/ \E o \in DbOutcomes : Save(1, o)
  \/ Tick

Spec == Init /\ [][Next]_vars

(***************************************************************************)
(* Properties                                                              *)
(***************************************************************************)
Done(p) == proc[p].pc = "done"

\* The store lookup of request p completed (found a document or none).
LookedUp(p) == proc[p].lookRes \in {"hit", "miss"}

\* The hours the handler of p passes to findInDatabase.
WindowOf(p) == CACHE_DURATIONS(DurationKey(proc[p].rq.ep))

\* The documents that were in the store when p looked up and match its key.
KeyMatches(p) ==
  { i \in 1..proc[p].lookLen :
      store[i].model = ModelOf(proc[p].rq.ep) /\ Matches(store[i], proc[p].key) }

\* Those of them inside the freshness window at the time of the lookup.
FreshMatches(p) ==
  { i \in KeyMatches(p) : InWindow(store[i], proc[p].lookAt, WindowOf(p)) }

C2_MissOneCallOneWrite ==
  \A p \in Procs :
    (Done(p) /\ proc[p].lookRes = "miss") => (proc[p].up = 1 /\ proc[p].wr = 1)

\* C2 amended: such a request makes exactly one upstream call and writes at
\* most one document: exactly one (the document it built) when the upstream
\* call succeeded and the store write did not fail, none otherwise.
C2_MissOneCallAtMostOneWrite ==
  \A p \in Procs :
    (Done(p) /\ proc[p].lookRes = "miss") =>
      /\ proc[p].up = 1
      /\ proc[p].wr \in {0, 1}
      /\ proc[p].wr = 1 <=> (proc[p].upRes = "ok" /\ proc[p].saveRes = "ok")
      /\ Len(store) = proc[p].lookLen + proc[p].wr
      /\ proc[p].wr = 1 => store[Len(store)] = proc[p].doc

C2_Witness ==
  \E p \in Procs :
    /\ Done(p) /\ proc[p].lookRes = "miss" /\ proc[p].wr = 1
    /\ proc[p].resp.from = "api" /\ proc[p].rq.ep = "notification_detail"

\* The document is one the request of p writes (whatever payload, time and
\* provider city name it carries).
WrittenBySameRequest(doc, p) ==
  /\ [doc EXCEPT !.data = NoData, !.time = 0, !.city = NULL]
       = [SavedDoc(proc[p].rq, proc[p].ld, NoData, 0) EXCEPT !.city = NULL]
  /\ doc.data.ep = proc[p].rq.ep
  /\ doc.data.params = UpstreamParams(proc[p].rq, proc[p].ld)

\* The documents an earlier issue of the same request wrote less than one
\* freshness window before p looked up.
EarlierSame(p) ==
  { i \in 1..proc[p].lookLen :
      /\ WrittenBySameRequest(store[i], p)
      /\ proc[p].lookAt - store[i].time < WindowOf(p) }

\* C3: a request repeated inside the freshness window of its first issue is
\* served from the document the first issue wrote, without an upstream
\* call, and with the payload of the first response.  (Stated for every
\* endpoint but marine, whose documents are saved without the type its
\* lookup asks for: whether they can match rests on the Marine schema; and
\* for lookups the store answered.)
C3_RepeatServedFromFirst ==
  \A p \in Procs :
    (/\ Done(p) /\ LookedUp(p) /\ EarlierSame(p) # {}
     /\ proc[p].rq.ep # "marine" /\ proc[p].lookRes # "threw") =>
      /\ proc[p].lookRes = "hit"
      /\ proc[p].hit \in EarlierSame(p)
      /\ proc[p].resp.data = store[proc[p].hit].data
      /\ proc[p].up = 0

\* C4: a store failure never fails a request: a lookup that throws is
\* followed by the upstream call, and a write that throws still leaves the
\* caller with the fetched data and a success status.
C4_StoreFailureSwallowed ==
  \A p \in Procs :
    Done(p) =>
      /\ proc[p].lookRes = "threw" => proc[p].up = 1
      /\ proc[p].saveRes = "threw" =>
           (proc[p].resp.status = 200 /\ proc[p].resp.data = proc[p].data)

\* The freshness windows (hours) of the specification.
FreshnessWindow(ep) ==
  CASE ep \in {"current", "alerts"} -> 1
    [] ep \in {"forecast", "seven_day_forecast"} -> 3
    [] ep = "marine" -> 6
    [] ep \in {"future", "astronomy", "timezone", "history"} -> 24

WindowedEndpoints == Endpoints \ {"notifications", "notification_detail"}

PlaceOfText(q) ==
  CASE q = "21,105" -> <<"21", "105">>
    [] q = "10,106" -> <<"10", "106">>
    [] Len(searchLocation(q)) > 0 -> <<searchLocation(q)[1].lat, searchLocation(q)[1].lon>>
    [] OTHER -> <<NULL, NULL>>

\* The place an upstream call was made for.
PlaceOfParams(pm) == IF pm.lat # NULL THEN <<pm.lat, pm.lon>> ELSE PlaceOfText(pm.q)

\* The place request p asks about.
PlaceOfRequest(p) ==
  IF HasCoords(proc[p].rq) THEN <<proc[p].rq.lat, proc[p].rq.lon>>
  ELSE <<proc[p].ld.lat, proc[p].ld.lon>>

C8_CoordsVerbatim ==
  \A p \in Procs :
    HasCoords(proc[p].rq) =>
      /\ proc[p].geo = 0
      /\ proc[p].look >= 1 =>
           /\ proc[p].key.latitude = proc[p].rq.lat
           /\ proc[p].key.longitude = proc[p].rq.lon
           /\ proc[p].key.city = NULL
      /\ proc[p].up >= 1 =>
           IF proc[p].rq.ep = "seven_day_forecast"
           THEN /\ proc[p].params.lat = proc[p].rq.lat
                /\ proc[p].params.lon = proc[p].rq.lon
                /\ proc[p].params.q = NULL
           ELSE proc[p].params.q = CoordStr(proc[p].rq.lat, proc[p].rq.lon)

\* A request carrying a name and coordinates has called upstream.
C8_Witness ==
  \E p \in Procs :
    /\ Done(p) /\ HasCoords(proc[p].rq) /\ proc[p].rq.location # NULL
    /\ proc[p].look = 1 /\ proc[p].up = 1

\* C9: a valid name-only request whose name the geocoder does not know ends
\* with the error "Location not found" after one geocoding call, without a
\* store lookup, an upstream call or a store write.
C9_UnknownNameFailsEarly ==
  \A p \in Procs :
    ( /\ Done(p)
      /\ Validate(proc[p].rq) = Passed
      /\ ~HasCoords(proc[p].rq)
      /\ proc[p].rq.location \in {"Atlantis"} ) =>
      /\ proc[p].resp.status >= 400
      /\ proc[p].resp.error = "Location not found"
      /\ proc[p].geo = 1
      /\ proc[p].look = 0
      /\ proc[p].up = 0
      /\ proc[p].wr = 0

C9_Witness ==
  \E p \in Procs :
    /\ Done(p) /\ proc[p].rq.ep = "history"
    /\ proc[p].resp.error = "Location not found" /\ proc[p].geo = 1

(***************************************************************************)
(* Concurrent requests                                                     *)
(***************************************************************************)
\* Two handlers interleave at their awaits; all requests of a behaviour are
\* the same request.
InitConc ==
  /\ now = 0
  /\ store = << >>
  /\ proc = [p \in Procs |-> IdleProc]
  /\ issued = 0
  /\ limit = MaxConcRequests
  /\ \E a \in Requests : workload = {a}
  /\ chat = IdleChat
  /\ chats = << >>
  /\ sub = NoSubResponse
  /\ xfer = IdleXfer
  /\ ask = IdleAsk /\ gate = IdleGate /\ hist = IdleHist
  /\ genRetry = IdleGenRetry

NextConc ==
  \/ \E p \in Procs, r \in Requests : Start(p, r)
  \/ \E p \in Procs : Geocode(p)
  \/ \E p \in Procs, o \in DbOutcomes : Lookup(p, o)
  \/ \E p \in Procs, o \in {"ok", "ok_no_alert", "http_error", "net_error"},
        c \in OwmCityNames \cup {NULL} : Call(p, o, c)
  \/ \E p \in Procs, o \in DbOutcomes : Save(p, o)
  \/ Tick

SpecConc == InitConc /\ [][NextConc]_vars

\* The step a suspended handler takes next is enabled whatever the other
\* handler is doing.
CanProceed(p) ==
  CASE proc[p].pc = "geocode" -> ENABLED Geocode(p)
    [] proc[p].pc = "lookup"  -> \A o \in DbOutcomes : ENABLED Lookup(p, o)
    [] proc[p].pc = "call"    -> ENABLED Call(p, "ok", IF proc[p].rq.ep = "seven_day_forecast"
                                                       THEN "HaNoi_VN" ELSE NULL)
    [] proc[p].pc = "save"    -> \A o \in DbOutcomes : ENABLED Save(p, o)
    [] OTHER -> TRUE

\* Both handlers missed, called upstream successfully and wrote.
BothMissedAndWrote ==
  /\ \A p \in Procs :
       /\ Done(p) /\ proc[p].lookRes = "miss"
       /\ proc[p].upRes = "ok" /\ proc[p].saveRes = "ok"
  /\ proc[1].rq = proc[2].rq

ChatApology(kind) == [status |-> 200, answer |-> kind, saved |-> FALSE]

ChatFailure(status) == [status |-> status, answer |-> NULL, saved |-> FALSE]

\* POST /chat arrives: handleChat rejects a missing question, else
\* processWeatherQuestion starts and awaits analyzeQuestion.
ChatStart(question, city, sessionId) ==
  /\ chat.pc \in {"idle", "done"}
  /\ issued < limit
  /\ issued' = issued + 1
  /\ chat' = IF ~Truthy(question)
             THEN [IdleChat EXCEPT !.pc = "done", !.resp = ChatFailure(400)]
             ELSE [IdleChat EXCEPT !.pc = "analyze", !.question = question,
                                   !.city = city, !.sessionId = sessionId]
  /\ UNCHANGED <<now, store, proc, limit, workload, chats, sub, xfer, ask, gate, hist, genRetry>>

\* analyzeQuestion returns.  With a location in the analysis or a city in
\* the request the turn awaits searchLocation; with neither it returns the
\* "which place" apology.
ChatAnalyze(a) ==
  /\ chat.pc = "analyze"
  /\ chat' = IF Truthy(a.location) \/ Truthy(chat.city)
             THEN [chat EXCEPT !.analysis = a, !.pc = "locate"]
             ELSE [chat EXCEPT !.analysis = a, !.pc = "done",
                               !.resp = ChatApology("no_location")]
  /\ UNCHANGED <<now, store, proc, issued, limit, workload, chats, sub, xfer, ask, gate, hist, genRetry>>

\* searchLocation(analysis.location) - or, only when the analysis names no
\* location, searchLocation(city) - returns; then the checks up to the first
\* upstream call: if (!location && !city) apologise; building weatherData
\* reads analysis.time.value.
ChatLocate ==
  /\ chat.pc = "locate"
  /\ LET text    == IF Truthy(chat.analysis.location) THEN chat.analysis.location
                    ELSE chat.city
         results == searchLocation(text)
         found   == Len(results) > 0
         loc     == IF found THEN results[1] ELSE NoLocation
         cty     == IF found THEN results[1].name ELSE chat.city
         seen    == [chat EXCEPT !.geo = @ + 1, !.geoEmpty = ~found,
                                 !.location = loc, !.city = cty]
     IN  chat' = CASE loc = NoLocation /\ ~Truthy(cty) ->
                        [seen EXCEPT !.pc = "done", !.resp = ChatApology("no_location")]
                   [] (loc # NoLocation \/ Truthy(cty)) /\ ~chat.analysis.hasTime ->
                        [seen EXCEPT !.pc = "done", !.resp = ChatFailure(500)]
                   [] OTHER -> [seen EXCEPT !.pc = "fetch", !.step = 1]
  /\ UNCHANGED <<now, store, proc, issued, limit, workload, chats, sub, xfer, ask, gate, hist, genRetry>>

\* q: location ? `${location.lat},${location.lon}` : city
ChatQuery(c) ==
  IF c.location # NoLocation THEN CoordStr(c.location.lat, c.location.lon) ELSE c.city

\* One upstream call of the turn returns or fails (each is in its own
\* try/catch); after the last one, the turn apologises when neither current
\* nor forecast (nor future) data came back.
ChatFetch(outcome) ==
  /\ chat.pc = "fetch"
  /\ LET calls == ChatCalls(chat.analysis)
         got   == IF outcome = "ok" THEN chat.got \cup {calls[chat.step]} ELSE chat.got
         sent  == [chat EXCEPT !.up = @ + 1, !.upq = @ \cup {ChatQuery(chat)},
                               !.got = got, !.step = @ + 1]
     IN  chat' = CASE chat.step < Len(calls) -> sent
                   [] chat.step = Len(calls) /\ got \cap {"current", "forecast", "future"} = {} ->
                        [sent EXCEPT !.pc = "done", !.resp = ChatApology("no_data")]
                   [] OTHER -> [sent EXCEPT !.pc = "compose"]
  /\ UNCHANGED <<now, store, proc, issued, limit, workload, chats, sub, xfer, ask, gate, hist, genRetry>>

\* generateWithRetry(prompt, maxRetries = 3)
maxRetries == 3

\* How one model.generateContent attempt ends: with a text, with an empty
\* text, with an error of the client library (its message carries
\* "[GoogleGenerativeAI Error]") or with any other error ("Gemini model not
\* initialized" included).
GenAttemptOutcomes == {"text", "empty_text", "google_error", "other_error"}

GenFailures == {"google_error", "other_error"}

\* The attempts of one generateWithRetry call: failures, then a success or
\* the maxRetries-th failure.
GenRuns ==
  { s \in UNION { [1..n -> GenAttemptOutcomes] : n \in 1..maxRetries } :
      /\ \A k \in 1..(Len(s) - 1) : s[k] \in GenFailures
      /\ Len(s) < maxRetries => s[Len(s)] \notin GenFailures }

\* initGemini() in the catch of the last attempt: a model, or null.
ReinitOutcomes == {"model", "null"}

\* After the last failure: with a new model, `model = newModel` assigns to
\* the const model and throws TypeError; with none, throw lastError.
generateWithRetry(attempts, reinit) ==
  LET last == attempts[Len(attempts)]
  IN  CASE last = "text" -> Returned("ai")
        [] last = "empty_text" -> Returned("")
        [] last \in GenFailures /\ reinit = "model" -> Thrown("TypeError")
        [] OTHER -> Thrown(last)

\* generateFallbackAnswer: the sentences for current, forecastday[0] and -
\* when analysis.time.type is "hourly" and the hour is found in the forecast
\* - the hour's reading; the fixed apology when none applies.
generateFallbackAnswer(got, hourly, hourFound) ==
  LET parts == (got \cap {"current", "forecast"})
                 \cup (IF hourly /\ "forecast" \in got /\ hourFound THEN {"hourly"} ELSE {})
  IN  CASE parts = {"current"} -> "fallback: current"
        [] parts = {"forecast"} -> "fallback: forecast"
        [] parts = {"current", "forecast"} -> "fallback: current, forecast"
        [] parts = {"forecast", "hourly"} -> "fallback: forecast, hourly"
        [] parts = {"current", "forecast", "hourly"} -> "fallback: current, forecast, hourly"
        [] OTHER -> "fallback: apology"

FallbackAnswers ==
  {"fallback: current", "fallback: forecast", "fallback: current, forecast",
   "fallback: forecast, hourly", "fallback: current, forecast, hourly",
   "fallback: apology"}

\* The answer of the turn: generateWithRetry's text, the "service
\* unavailable" text when its error message contains "GoogleGenerativeAI
\* Error", else generateFallbackAnswer.
ComposedAnswer(gen, got, hourly, hourFound) ==
  CASE ~IsThrown(gen) -> gen.value
    [] IsThrown(gen) /\ gen.thrown = "google_error" -> "unavailable"
    [] OTHER -> generateFallbackAnswer(got, hourly, hourFound)

\* Chat.create: the schema requires question, answer and sessionId, and a
\* required string may not be empty.
ChatValid(record) ==
  Truthy(record.question) /\ Truthy(record.answer) /\ Truthy(record.sessionId)

\* What a generateWithRetry call can return or throw.
GenResults ==
  { generateWithRetry(s, reinit) : s \in GenRuns, reinit \in ReinitOutcomes }

\* Whether the fallback's hourly branch can be entered at all.
HourlyAsked(c) == c.analysis.hourly /\ "forecast" \in c.got

\* The answer is composed, then Chat.create and the response.
ChatCompose(gen, hourFound, db) ==
  /\ chat.pc = "compose"
  /\ gen \in GenResults
  /\ hourFound => HourlyAsked(chat)
  /\ LET answer == ComposedAnswer(gen, chat.got, chat.analysis.hourly, hourFound)
         record == [question |-> chat.question, answer |-> answer,
                    sessionId |-> Or2(chat.sessionId, "generated"),
                    location |-> Or2(chat.location.name, chat.city),
                    timestamp |-> now]
         told   == [chat EXCEPT !.pc = "done", !.gen = gen, !.answer = answer]
     IN  IF db = "ok" /\ ChatValid(record)
         THEN /\ chats' = Append(chats, record)
              /\ chat' = [told EXCEPT
                            !.resp = [status |-> 200, answer |-> answer, saved |-> TRUE]]
         ELSE /\ chats' = chats
              /\ chat' = [told EXCEPT !.resp = ChatFailure(500)]
  /\ UNCHANGED <<now, store, proc, issued, limit, workload, sub, xfer, ask, gate, hist, genRetry>>

InitChat ==
  /\ now = 0
  /\ store = << >>
  /\ proc = [p \in Procs |-> IdleProc]
  /\ issued = 0
  /\ limit = MaxChatTurns
  /\ workload = {}
  /\ chat = IdleChat
  /\ chats = << >>
  /\ sub = NoSubResponse
  /\ xfer = IdleXfer
  /\ ask = IdleAsk /\ gate = IdleGate /\ hist = IdleHist
  /\ genRetry = IdleGenRetry

NextChat ==
  \/ \E question \in {NULL, "question"}, city \in {NULL, "Hanoi", "Atlantis"},
        sessionId \in {NULL, "s1"} : ChatStart(question, city, sessionId)
  \/ \E a \in Analyses : ChatAnalyze(a)
  \/ ChatLocate
  \/ \E o \in {"ok", "error"} : ChatFetch(o)
  \/ \E gen \in GenResults, hourFound \in BOOLEAN, db \in DbOutcomes :
        ChatCompose(gen, hourFound, db)

SpecChat == InitChat /\ [][NextChat]_vars

\* C10: in a chat turn whose geocoding call returned zero results, no
\* upstream weather call is made.
C10_NoUpstreamAfterEmptyGeocode ==
  chat.geoEmpty => chat.up = 0

(***************************************************************************)
(* Location keys of requests and records                                   *)
(***************************************************************************)
\* C11: a name-only request that misses makes exactly one geocoding call,
\* its upstream call asks for the geocoded "lat,lon" or the canonical name,
\* and the document it writes has city equal to the canonical name.
C11_NameMissUsesCanonical ==
  \A p \in Procs :
    (Done(p) /\ ~HasCoords(proc[p].rq) /\ proc[p].lookRes = "miss" /\ proc[p].up = 1) =>
      /\ proc[p].geo = 1
      /\ \/ proc[p].params.q \in {CoordStr(proc[p].ld.lat, proc[p].ld.lon), proc[p].ld.name}
         \/ /\ proc[p].params.lat = proc[p].ld.lat
            /\ proc[p].params.lon = proc[p].ld.lon
      /\ proc[p].wr = 1 => proc[p].doc.city = proc[p].ld.name

\* Exactly one location-key form of the document is populated.
OneKeyForm(doc) ==
  \/ Truthy(doc.city) /\ ~Truthy(doc.latitude) /\ ~Truthy(doc.longitude)
  \/ ~Truthy(doc.city) /\ Truthy(doc.latitude) /\ Truthy(doc.longitude)

\* A lookup by coordinates was served a document carrying a city, or a
\* lookup by name a document carrying coordinates.
CrossFormHit(p) ==
  /\ proc[p].lookRes = "hit"
  /\ \/ HasCoords(proc[p].rq) /\ Truthy(store[proc[p].hit].city)
     \/ ~HasCoords(proc[p].rq) /\ Truthy(store[proc[p].hit].latitude)

\* C12: every stored document has exactly one location-key form populated,
\* and no lookup in one form is served a document that carries the other.
C12_OneLocationKeyForm ==
  /\ \A i \in 1..Len(store) : OneKeyForm(store[i])
  /\ \A p \in Procs : ~CrossFormHit(p)

(***************************************************************************)
(* Alert subscriptions (subscribeToAlerts, unsubscribeFromAlerts)          *)
(***************************************************************************)
MaxSubRequests == 3

DeviceIds == {"d1", "d2"}

Severities == {"minor", "moderate", "severe", "extreme"}

\* A document without a time field: no $gte on time selects it.
NoTime == -1000

\* The document subscribeToAlerts creates in the Weather collection.
SubscriptionDoc(deviceId, ld) ==
  [model     |-> "Weather",
   type      |-> "alert_subscription",
   time      |-> NoTime,
   longitude |-> ld.lon,
   latitude  |-> ld.lat,
   city      |-> NULL,
   location  |-> ld.name,
   days      |-> NULL,
   date      |-> NULL,
   alertId   |-> NULL,
   deviceId  |-> deviceId,
   active    |-> "true",
   data      |-> NoData]

\* The answer to a subscription request, kept with the request it answers:
\* the location of its query string and the deviceId and location of its body.
SubResponse(op, status, error, deviceId, qloc, location) ==
  [op |-> op, status |-> status, error |-> error, deviceId |-> deviceId,
   query |-> qloc, location |-> location]

\* The query the subscription routes' validateQuery middleware sees.
SubQuery(qloc) == [NoRequest EXCEPT !.ep = "subscription", !.location = qloc]

\* An updateMany whose filter selects every document of the collection.
updateManyAnyType(docs, deviceId) ==
  [i \in 1..Len(docs) |->
     IF docs[i].model = "Weather" THEN [docs[i] EXCEPT !.active = "false"] ELSE docs[i]]

\* An update whose filter leaves out the deviceId.
updateManyAnyDevice(docs, deviceId) ==
  [i \in 1..Len(docs) |->
     IF /\ docs[i].model = "Weather"
        /\ docs[i].type = "alert_subscription"
        /\ docs[i].active = "true"
     THEN [docs[i] EXCEPT !.active = "false"]
     ELSE docs[i]]

\* Weather.updateMany({type: "alert_subscription", deviceId, active: true},
\*                    {$set: {active: false, ...}})
updateMany(docs, deviceId) ==
  [i \in 1..Len(docs) |->
     IF /\ docs[i].model = "Weather"
        /\ docs[i].type = "alert_subscription"
        /\ docs[i].deviceId = deviceId
        /\ docs[i].active = "true"
     THEN [docs[i] EXCEPT !.active = "false"]
     ELSE docs[i]]

\* result.modifiedCount
modifiedCount(before, after) ==
  Cardinality({ i \in 1..Len(before) : before[i] # after[i] })

\* POST /weather/notifications/subscribe: the middleware on the query, then
\* the handler on the body.
Subscribe(qloc, deviceId, location, severity, outcome) ==
  /\ \A p \in Procs : proc[p].pc \in {"idle", "done"}
  /\ issued < limit
  /\ issued' = issued + 1
  /\ LET mw  == validateQuery(SubQuery(qloc))
         res == searchLocation(location)
         R(status, error) ==
           SubResponse("subscribe", status, error, deviceId, qloc, location)
     IN  CASE mw # Passed ->
                sub' = R(mw.status, mw.error) /\ store' = store
           [] mw = Passed /\ (~Truthy(deviceId) \/ ~Truthy(location)) ->
                sub' = R(400, "Device ID and location are required") /\ store' = store
           [] mw = Passed /\ Truthy(deviceId) /\ Truthy(location) /\ Len(res) = 0 ->
                sub' = R(400, "Invalid location") /\ store' = store
           [] mw = Passed /\ Truthy(deviceId) /\ Truthy(location) /\ Len(res) > 0
              /\ Truthy(severity) /\ severity \notin Severities ->
                sub' = R(400, "Invalid severity level") /\ store' = store
           [] mw = Passed /\ Truthy(deviceId) /\ Truthy(location) /\ Len(res) > 0
              /\ (~Truthy(severity) \/ severity \in Severities) ->
                IF outcome = "ok"
                THEN /\ store' = Append(store, SubscriptionDoc(deviceId, res[1]))
                     /\ sub' = R(200, NULL)
                ELSE /\ store' = store
                     /\ sub' = R(500, "Failed to subscribe to alerts")
  /\ UNCHANGED <<now, proc, limit, workload, chat, chats, xfer,
               ask, gate, hist, genRetry>>

\* POST /weather/notifications/unsubscribe.
Unsubscribe(qloc, deviceId, outcome) ==
  /\ \A p \in Procs : proc[p].pc \in {"idle", "done"}
  /\ issued < limit
  /\ issued' = issued + 1
  /\ LET mw    == validateQuery(SubQuery(qloc))
         after == updateMany(store, deviceId)
         R(status, error) ==
           SubResponse("unsubscribe", status, error, deviceId, qloc, NULL)
     IN  CASE mw # Passed ->
                sub' = R(mw.status, mw.error) /\ store' = store
           [] mw = Passed /\ ~Truthy(deviceId) ->
                sub' = R(400, "Device ID is required") /\ store' = store
           [] mw = Passed /\ Truthy(deviceId) /\ outcome = "throw" ->
                sub' = R(500, "Failed to unsubscribe from alerts") /\ store' = store
           [] mw = Passed /\ Truthy(deviceId) /\ outcome = "ok" ->
                /\ store' = after
                /\ sub' = IF modifiedCount(store, after) = 0
                          THEN R(404, "No active subscription found")
                          ELSE R(200, NULL)
  /\ UNCHANGED <<now, proc, limit, workload, chat, chats, xfer,
               ask, gate, hist, genRetry>>

\* Weather requests for one place, interleaved with subscription requests.
InitSub ==
  /\ now = 0
  /\ store = << >>
  /\ proc = [p \in Procs |-> IdleProc]
  /\ issued = 0
  /\ limit = MaxSubRequests
  /\ \E a \in { r \in Requests : r.ep \in {"current", "alerts"} /\ r.location # "Atlantis" } :
       workload = {a}
  /\ chat = IdleChat
  /\ chats = << >>
  /\ sub = NoSubResponse
  /\ xfer = IdleXfer
  /\ ask = IdleAsk /\ gate = IdleGate /\ hist = IdleHist
  /\ genRetry = IdleGenRetry

NextSub ==
  \/ \E r \in Requests : Start(1, r)
  \/ Geocode(1)
  \/ \E o \in DbOutcomes : Lookup(1, o)
  \/ \E o \in {"ok", "http_error", "net_error"} : Call(1, o, NULL)
  \/ \E o \in DbOutcomes : Save(1, o)
  \/ \E qloc \in {NULL, "Hanoi"}, d \in DeviceIds \cup {NULL},
        l \in {NULL, "Hanoi", "Atlantis"}, sv \in {NULL, "severe", "bogus"},
        o \in DbOutcomes : Subscribe(qloc, d, l, sv, o)
  \/ \E qloc \in {NULL, "Hanoi"}, d \in DeviceIds \cup {NULL}, o \in DbOutcomes :
       Unsubscribe(qloc, d, o)

SpecSub == InitSub /\ [][NextSub]_vars

\* A cached weather record, as opposed to a subscription.
IsWeatherRecord(doc) == doc.type # "alert_subscription"

UpstreamFailed(pr) == pr.upRes \in {"http_error", "net_error", "ok_no_alert"}

\* One step keeps every weather record as it is and where it is, adds a
\* weather record only as the write of a request whose upstream call
\* succeeded, and the step in which an upstream call fails changes nothing
\* in the store (nor has that request written before).
InsertOnlyStep ==
  /\ Len(store') >= Len(store)
  /\ \A i \in 1..Len(store) : IsWeatherRecord(store[i]) => store'[i] = store[i]
  /\ \A i \in (Len(store) + 1)..Len(store') :
       IsWeatherRecord(store'[i]) =>
         \E p \in Procs : /\ proc[p].pc = "save" /\ proc[p].upRes = "ok"
                          /\ store'[i] = proc[p].doc
  /\ \A p \in Procs :
       (proc'[p] # proc[p] /\ UpstreamFailed(proc'[p])) =>
         (store' = store /\ proc'[p].wr = 0)

MaxValRequests == 1

DateTexts == DOMAIN DateOf \cup {"2024-13-45", "01-05-2024"}

DaysTexts == {"0", "1", "14", "15", "20", "abc"}

\* q / location / lat / lon as a request may carry them.
PlaceForms ==
  [q : {NULL, "Hanoi"}, location : {NULL, "Hanoi"},
   lat : LatTexts \cup {NULL}, lon : LonTexts \cup {NULL}]

\* The places sent with every auxiliary parameter value: a name, a name under
\* q, and a coordinate pair.
FewPlaces ==
  { pl \in PlaceForms :
      \/ pl.lat = NULL /\ pl.lon = NULL /\ (pl.q = NULL) # (pl.location = NULL)
      \/ pl.lat = "21" /\ pl.lon = "105" /\ pl.q = NULL /\ pl.location = NULL }

\* days / date / dt / alertId as a request to the endpoint may carry them.
AuxForms(ep) ==
  CASE ep = "forecast" -> { [NoAux EXCEPT !.days = d] : d \in DaysTexts \cup {NULL} }
    [] ep \in {"future", "astronomy"} ->
         { [NoAux EXCEPT !.date = d] : d \in DateTexts \cup {NULL} }
         \cup { [NoAux EXCEPT !.dt = "2024-05-01"] }
    [] ep = "history" ->
         { [NoAux EXCEPT !.dt = d, !.date = e] :
             d \in DateTexts \cup {NULL}, e \in {NULL, "2024-05-01", "2005-01-01"} }
    [] ep = "notification_detail" -> { [NoAux EXCEPT !.alertId = a] : a \in {NULL, "A1"} }
    [] OTHER -> {NoAux}

ValRequest(ep, pl, a) ==
  [ep |-> ep, q |-> pl.q, location |-> pl.location, lat |-> pl.lat, lon |-> pl.lon,
   days |-> a.days, date |-> a.date, dt |-> a.dt, alertId |-> a.alertId]

\* Every endpoint with every place form, and with every auxiliary value.
ValRequests ==
  { ValRequest(ep, pl, AuxForm(ep, FALSE)) : ep \in Endpoints, pl \in PlaceForms }
  \cup UNION { { ValRequest(ep, pl, a) : pl \in FewPlaces, a \in AuxForms(ep) }
               : ep \in Endpoints }

InitVal ==
  /\ now = 0
  /\ store = << >>
  /\ proc = [p \in Procs |-> IdleProc]
  /\ issued = 0
  /\ limit = MaxValRequests
  /\ \E a \in ValRequests : workload = {a}
  /\ chat = IdleChat
  /\ chats = << >>
  /\ sub = NoSubResponse
  /\ xfer = IdleXfer
  /\ ask = IdleAsk /\ gate = IdleGate /\ hist = IdleHist
  /\ genRetry = IdleGenRetry

NextVal ==
  \/ \E r \in workload : Start(1, r)
  \/ Geocode(1)
  \/ \E o \in DbOutcomes : Lookup(1, o)
  \/ \E o \in {"ok", "ok_no_alert", "http_error", "net_error"}, c \in OwmCityNames \cup {NULL} :
       Call(1, o, c)
  \/ \E o \in DbOutcomes : Save(1, o)

SpecVal == InitVal /\ [][NextVal]_vars

\* The request of p has been received.
Received(p) == proc[p].pc # "idle"

\* The request ended without I/O: no geocoding call, no store lookup, no
\* upstream call, no store write.
NoIO(p) ==
  Done(p) /\ proc[p].geo = 0 /\ proc[p].look = 0 /\ proc[p].up = 0 /\ proc[p].wr = 0

\* The texts read as numbers, and the pairs inside the coordinate ranges.
InRange(lat, lon) ==
  /\ lat \in DOMAIN NumberOf /\ lon \in DOMAIN NumberOf
  /\ -90 <= NumberOf[lat] /\ NumberOf[lat] <= 90
  /\ -180 <= NumberOf[lon] /\ NumberOf[lon] <= 180

\* The errors with which a request is refused for its place parameters.
CoordinateErrors ==
  {"Invalid coordinates", "Invalid latitude", "Invalid longitude",
   "Latitude and longitude must be numbers", "Latitude must be between -90 and 90",
   "Longitude must be between -180 and 180"}

\* The errors of input validation.
ValidationErrors ==
  CoordinateErrors \cup
  {"Location is required", "Location or coordinates (lat,lon) is required",
   "Missing required parameter", "Invalid date format", "Invalid date",
   "Date is required", "Date must be in YYYY-MM-DD format",
   "Days must be a number between 1 and 14", "Alert ID is required"}

ValidationFailed(p) == Done(p) /\ proc[p].resp.error \in ValidationErrors

\* C14: a request with exactly one of lat / lon is refused with the
\* paired-coordinate error, a pair outside the ranges is refused, and no
\* pair inside the ranges is refused for its coordinates.
C14_CoordinateValidation ==
  \A p \in Procs :
    Received(p) =>
      LET r == proc[p].rq
      IN  /\ (Truthy(r.lat) # Truthy(r.lon)) =>
               (NoIO(p) /\ proc[p].resp.status = 400
                        /\ proc[p].resp.error = "Invalid coordinates")
          /\ (HasCoords(r) /\ ~InRange(r.lat, r.lon)) =>
               (NoIO(p) /\ proc[p].resp.error \in ValidationErrors)
          /\ (HasCoords(r) /\ InRange(r.lat, r.lon)) =>
               proc[p].resp.error \notin CoordinateErrors

\* C15: every validation failure is answered with a 400-class status.
C15_ValidationFailureIs4xx ==
  \A p \in Procs :
    ValidationFailed(p) => proc[p].resp.status \in 400..499

\* C16: a request that fails validation has made no geocoding call, no
\* store lookup, no upstream call and no store write.
C16_ValidationBeforeIO ==
  \A p \in Procs :
    ValidationFailed(p) => NoIO(p)

\* A forecast request with days = 20 was refused for its days.
C16_Witness ==
  /\ proc[1].rq.ep = "forecast" /\ proc[1].rq.days = "20" /\ proc[1].rq.location = "Hanoi"
  /\ Done(1) /\ proc[1].resp.error = "Days must be a number between 1 and 14"

\* The history request of p names a place and carries dt in YYYY-MM-DD form.
HistoryWithDt(p) ==
  /\ Received(p) /\ proc[p].rq.ep = "history"
  /\ Truthy(Or2(proc[p].rq.q, proc[p].rq.location))
  /\ proc[p].rq.dt \in DOMAIN DateOf

\* C17: a history request dated before 2010-01-01 is refused with a
\* validation error without I/O; one dated 2010-01-01 or later is not
\* refused for its date.
C17_HistoryDateFloor ==
  \A p \in Procs :
    HistoryWithDt(p) =>
      IF DateOf[proc[p].rq.dt] < 20100101
      THEN NoIO(p) /\ proc[p].resp.status = 400 /\ proc[p].resp.error = "Invalid date"
      ELSE proc[p].resp.error \notin
             {"Invalid date", "Invalid date format", "Date is required",
              "Date must be in YYYY-MM-DD format", "Missing required parameter"}

\* A history request for 2009-12-31 has been refused.
C17_Witness ==
  /\ HistoryWithDt(1) /\ Done(1)
  /\ proc[1].rq.dt = "2009-12-31" /\ proc[1].resp.error = "Invalid date"

\* C18: a history request that names a place (under q or location) and
\* carries a valid date only as `date` passes validation and is processed:
\* it is not refused and it reaches geocoding or the store lookup.
C18_HistoryAcceptsDate ==
  \A p \in Procs :
    (/\ Done(p) /\ proc[p].rq.ep = "history"
     /\ Truthy(Or2(proc[p].rq.q, proc[p].rq.location))
     /\ ~Truthy(proc[p].rq.dt) /\ proc[p].rq.date = "2024-05-01") =>
      /\ proc[p].resp.error \notin ValidationErrors
      /\ proc[p].geo + proc[p].look >= 1

(***************************************************************************)
(* The upstream transport: axios with the retry interceptor                *)
(***************************************************************************)
MaxCalls == 2

\* axios.defaults.retry and axios.defaults.retryDelay (milliseconds).
DefaultRetry == 3

DefaultRetryDelay == 1000

\* The callers of axios: callWeatherAPI and the 7-day handler pass retry and
\* retryDelay themselves, the chat turn's axios.get calls take the defaults.
Callers == {"callWeatherAPI", "getSevenDayForecast", "processWeatherQuestion"}

\* How one attempt ends: a 2xx response, a transport failure (no response:
\* timeout, refused connection), or a non-2xx response with an error body.
AttemptOutcomes == {"ok", "net_error", "http_error"}

\* The caller issues the request: axios merges the request's config with
\* the defaults and sends the first attempt.
XferStart(caller) ==
  /\ xfer.pc \in {"idle", "done"}
  /\ issued < limit
  /\ issued' = issued + 1
  /\ xfer' = [IdleXfer EXCEPT !.pc = "inflight", !.via = caller,
                              !.retry = DefaultRetry, !.retryDelay = DefaultRetryDelay]
  /\ UNCHANGED <<now, store, proc, limit, workload, chat, chats, sub,
               ask, gate, hist, genRetry>>

\* An interceptor that allows one retry more.
XferRespondOneMore(outcome) ==
  /\ xfer.pc = "inflight"
  /\ LET tried == [xfer EXCEPT !.attempts = Append(@, outcome)]
     IN  xfer' = CASE outcome = "ok" -> [tried EXCEPT !.pc = "done", !.result = "ok"]
                   [] outcome # "ok" /\ (xfer.retry = 0 \/ xfer.retryCount > xfer.retry) ->
                        [tried EXCEPT !.pc = "done", !.result = outcome]
                   [] OTHER -> [tried EXCEPT !.retryCount = @ + 1, !.pc = "delay"]
  /\ UNCHANGED <<now, store, proc, issued, limit, workload, chat, chats, sub,
               ask, gate, hist, genRetry>>

\* An attempt ends.  A response resolves the request; any error runs the
\* response interceptor: without config.retry, or with retryCount >= retry,
\* it rejects with the error, else it counts the retry and starts the delay.
XferRespond(outcome) ==
  /\ xfer.pc = "inflight"
  /\ LET tried == [xfer EXCEPT !.attempts = Append(@, outcome)]
     IN  xfer' = CASE outcome = "ok" -> [tried EXCEPT !.pc = "done", !.result = "ok"]
                   [] outcome # "ok" /\ (xfer.retry = 0 \/ xfer.retryCount >= xfer.retry) ->
                        [tried EXCEPT !.pc = "done", !.result = outcome]
                   [] OTHER -> [tried EXCEPT !.retryCount = @ + 1, !.pc = "delay"]
  /\ UNCHANGED <<now, store, proc, issued, limit, workload, chat, chats, sub,
               ask, gate, hist, genRetry>>

\* The delay (config.retryDelay || 1000) has elapsed: return axios(config).
XferRetry ==
  /\ xfer.pc = "delay"
  /\ xfer' = [xfer EXCEPT !.pc = "inflight",
                          !.waited = @ + (IF xfer.retryDelay # 0 THEN xfer.retryDelay
                                          ELSE DefaultRetryDelay)]
  /\ UNCHANGED <<now, store, proc, issued, limit, workload, chat, chats, sub,
               ask, gate, hist, genRetry>>

InitRetry ==
  /\ now = 0
  /\ store = << >>
  /\ proc = [p \in Procs |-> IdleProc]
  /\ issued = 0
  /\ limit = MaxCalls
  /\ workload = {}
  /\ chat = IdleChat
  /\ chats = << >>
  /\ sub = NoSubResponse
  /\ xfer = IdleXfer
  /\ ask = IdleAsk /\ gate = IdleGate /\ hist = IdleHist
  /\ genRetry = IdleGenRetry

NextRetry ==
  \/ \E c \in Callers : XferStart(c)
  \/ \E o \in AttemptOutcomes : XferRespond(o)
  \/ XferRetry

\* Every attempt ends (each is bounded by axios.defaults.timeout) and every
\* delay timer fires.
SpecRetry ==
  /\ InitRetry /\ [][NextRetry]_vars
  /\ WF_vars(\E o \in AttemptOutcomes : XferRespond(o))
  /\ WF_vars(XferRetry)

\* The attempts made, the retries counted and the time waited agree, and
\* never exceed 3 retries (4 attempts); a request that ended gave its caller
\* the outcome of the last attempt, success on any attempt ended it, and a
\* failure was handed on only after 4 failed attempts.
RetriesBounded ==
  /\ xfer.retryCount <= 3 /\ Len(xfer.attempts) <= 4
  /\ xfer.waited = 1000 * (IF xfer.pc = "delay" THEN xfer.retryCount - 1
                          ELSE xfer.retryCount)
  /\ xfer.pc = "inflight" => Len(xfer.attempts) = xfer.retryCount
  /\ xfer.pc = "delay" => Len(xfer.attempts) = xfer.retryCount
  /\ \A i \in 1..(Len(xfer.attempts) - 1) : xfer.attempts[i] # "ok"
  /\ xfer.pc = "done" =>
       /\ Len(xfer.attempts) = xfer.retryCount + 1
       /\ xfer.result = xfer.attempts[Len(xfer.attempts)]
       /\ xfer.result # "ok" => Len(xfer.attempts) = 4

\* C19: a failing upstream call is retried up to 3 times (at most 4
\* attempts, one second before each retry); when the retries are exhausted
\* the failure goes to the caller, a success on any attempt ends the retries
\* and is returned, and every call that was issued ends.
C19_RetryUpToThreeTimes ==
  /\ []RetriesBounded
  /\ (xfer.pc = "inflight") ~> (xfer.pc = "done")

\* A call ended in failure after three retries of transport errors.
C19_Witness ==
  /\ xfer.pc = "done" /\ xfer.result = "net_error"
  /\ xfer.attempts = <<"net_error", "net_error", "net_error", "net_error">>
  /\ xfer.waited = 3000

\* C20: a call whose first attempt ends in an upstream application error is
\* not retried: one attempt, and the error goes to the caller at once.
C20_ApplicationErrorNotRetried ==
  (Len(xfer.attempts) >= 1 /\ xfer.attempts[1] = "http_error") =>
    (xfer.pc = "done" /\ Len(xfer.attempts) = 1 /\ xfer.result = "http_error")

(***************************************************************************)
(* C21: status of the response after a failed upstream call                *)
(***************************************************************************)
\* C21: on every weather endpoint, when the upstream call finally fails, the
\* response status is the upstream's status code when the failure carries
\* one and 500 otherwise, the 7-day forecast included.
C21_UpstreamStatusPropagated ==
  \A p \in Procs :
    (Done(p) /\ proc[p].upRes \in {"http_error", "net_error"}) =>
      proc[p].resp.status =
        (IF proc[p].upRes = "http_error" THEN UpstreamErrorStatus ELSE 500)

(***************************************************************************)
(* The question resolver (analyzeQuestion, manualAnalyzeQuestion)          *)
(***************************************************************************)
MaxAsks == 2

\* A property the object does not have.  JSON values are kept as texts
\* ("true", "false", NULL for null) so that they compare with Undefined.
Undefined == "undefined"

\* const validTypes = [...]
validTypes ==
  {"current", "forecast", "history", "future", "marine", "astronomy",
   "timezone", "alerts"}

TimeObj(type, value, period, isHistory) ==
  [is |-> "object", type |-> type, value |-> value, period |-> period,
   isHistory |-> isHistory]

\* analysis.time absent (is = Undefined) or null (is = NULL).
NoTimeObj(is) ==
  [is |-> is, type |-> Undefined, value |-> Undefined, period |-> Undefined,
   isHistory |-> Undefined]

Intent(location, time, type, details) ==
  [location |-> location, time |-> time, type |-> type, details |-> details]

\* new Date() as a day number (days since 1970-01-01): 2024-05-01.
Today == 19844

\* A Date holds at most 8.64e15 ms, i.e. 100,000,000 days, either side of
\* the epoch; outside it is an Invalid Date.
MaxDateDay == 100000000

\* date.toISOString().split("T")[0] for the valid dates of the model.
ISODate ==
  (19844 :> "2024-05-01") @@ (19843 :> "2024-04-30") @@ (19841 :> "2024-04-28") @@
  (19837 :> "2024-04-24") @@ (19829 :> "2024-04-16")

\* What the history patterns and the includes() tests of
\* manualAnalyzeQuestion find in question.toLowerCase(): pattern is the
\* index of the first history pattern that matches (0: none), g1 tells
\* whether match[1] is defined and m1 is parseInt(match[1]), has is
\* the set of categories one of whose keywords the text includes.
QuestionFacts ==
  ("Thời tiết Hà Nội hôm nay thế nào?" :>
      [pattern |-> 0, g1 |-> FALSE, m1 |-> 0, has |-> {}]) @@
  ("Thời tiết 3 ngày trước ở Huế" :>
      [pattern |-> 1, g1 |-> TRUE, m1 |-> 3, has |-> {}]) @@
  ("Thời tiết hôm qua ở Hà Nội" :>
      [pattern |-> 2, g1 |-> FALSE, m1 |-> 0, has |-> {}]) @@
  ("Thời tiết 7 ngày qua" :>
      [pattern |-> 3, g1 |-> TRUE, m1 |-> 7, has |-> {}]) @@
  ("Thời tiết ngày 15/03/2024 ở Huế" :>
      [pattern |-> 4, g1 |-> TRUE, m1 |-> 15, has |-> {}]) @@
  ("Thời tiết 200000000 ngày trước ở Huế" :>
      [pattern |-> 1, g1 |-> TRUE, m1 |-> 200000000, has |-> {}]) @@
  ("Dự báo thời tiết hôm qua" :>
      [pattern |-> 2, g1 |-> FALSE, m1 |-> 0, has |-> {"forecast"}]) @@
  ("Dự báo thời tiết ngày mai" :>
      [pattern |-> 0, g1 |-> FALSE, m1 |-> 0, has |-> {"forecast"}]) @@
  ("Sóng biển Nha Trang" :>
      [pattern |-> 0, g1 |-> FALSE, m1 |-> 0, has |-> {"marine"}]) @@
  ("Mặt trời mọc lúc mấy giờ?" :>
      [pattern |-> 0, g1 |-> FALSE, m1 |-> 0, has |-> {"astronomy"}]) @@
  ("Có cảnh báo bão không?" :>
      [pattern |-> 0, g1 |-> FALSE, m1 |-> 0, has |-> {"alerts"}]) @@
  ("Múi giờ Tokyo" :>
      [pattern |-> 0, g1 |-> FALSE, m1 |-> 0, has |-> {"timezone"}]) @@
  ("Dự báo sóng biển ngày mai" :>
      [pattern |-> 0, g1 |-> FALSE, m1 |-> 0, has |-> {"forecast", "marine"}]) @@
  ("Cảnh báo bão trên biển" :>
      [pattern |-> 0, g1 |-> FALSE, m1 |-> 0, has |-> {"marine", "alerts"}]) @@
  ("Mặt trời lặn mấy giờ, múi giờ nào?" :>
      [pattern |-> 0, g1 |-> FALSE, m1 |-> 0, has |-> {"astronomy", "timezone"}]) @@
  ("Cảnh báo bão, múi giờ nào?" :>
      [pattern |-> 0, g1 |-> FALSE, m1 |-> 0, has |-> {"alerts", "timezone"}]) @@
  ("Thời tiết hôm qua, có bão và mặt trời không?" :>
      [pattern |-> 2, g1 |-> FALSE, m1 |-> 0, has |-> {"astronomy", "alerts"}])

Questions == DOMAIN QuestionFacts

\* The day the history branch computes: match[1] is tested first, so the
\* day of a dd/mm/yyyy question is read as a number of days ago.
HistoryDay(f, today) ==
  IF f.g1 THEN today - f.m1 ELSE today - 1

\* A keyword chain tested from its last branch to its first.
KeywordTypeReversed(has, type) ==
  IF "timezone" \in has THEN "timezone"
  ELSE IF "alerts" \in has THEN "alerts"
  ELSE IF "astronomy" \in has THEN "astronomy"
  ELSE IF "marine" \in has THEN "marine"
  ELSE IF "forecast" \in has THEN "forecast"
  ELSE type

\* The if / else-if chain over normalizedQuestion.includes(...): the first
\* branch whose keywords occur assigns analysis.type; none leaves it.
KeywordType(has, type) ==
  IF "forecast" \in has THEN "forecast"
  ELSE IF "marine" \in has THEN "marine"
  ELSE IF "astronomy" \in has THEN "astronomy"
  ELSE IF "alerts" \in has THEN "alerts"
  ELSE IF "timezone" \in has THEN "timezone"
  ELSE type

manualAnalyzeQuestion(question, today) ==
  LET f    == QuestionFacts[question]
      day  == HistoryDay(f, today)
      type == KeywordType(f.has, IF f.pattern # 0 THEN "history" ELSE "current")
  IN  IF f.pattern = 0
      THEN Intent(NULL, TimeObj("current", NULL, NULL, "false"), type, "[]")
      ELSE IF day < -MaxDateDay \/ day > MaxDateDay
      THEN Thrown("RangeError")
      ELSE Intent(NULL, TimeObj("history", ISODate[day], NULL, "true"), type, "[]")

\* What the generative model does with the prompt: the call rejects (or
\* model is null), or it resolves with a text.
AiTexts ==
  {"Xin lỗi, tôi không hiểu câu hỏi.",
   "{location: Hà Nội, type: current}",
   "{\"location\":\"Hà Nội\",\"time\":{\"type\":\"current\",\"value\":null,\"period\":null,\"isHistory\":false},\"type\":\"current\",\"details\":[\"temperature\"]}",
   "{\"location\":\"Hà Nội\",\"time\":{\"type\":\"history\",\"value\":\"2024-04-30\",\"period\":null,\"isHistory\":true},\"type\":\"weather\",\"details\":[]}",
   "{\"location\":\"Hà Nội\",\"time\":{\"type\":\"range\",\"value\":\"3 days\",\"period\":null,\"isHistory\":false},\"type\":\"rain\",\"details\":[]}",
   "{}",
   "Kết quả: {\"location\":\"Hà Nội\",\"type\":\"forecast\"} nhé.",
   "{\"location\":\"Hà Nội\",\"time\":null,\"type\":\"current\",\"details\":[]}",
   "{\"location\":null,\"time\":{\"type\":\"specific\"},\"type\":\"temperature\"}",
   "{\"location\":\"Huế\",\"time\":{\"type\":\"future\",\"value\":\"2024-06-01\",\"period\":null,\"isHistory\":false},\"type\":\"prediction\",\"details\":[]}",
   "{\"location\":\"Huế\",\"time\":{\"type\":\"range\",\"value\":\"7 days\",\"period\":null,\"isHistory\":true},\"type\":\"past\",\"details\":[]}",
   "{\"location\":\"Nha Trang\",\"time\":{\"type\":\"range\",\"value\":\"7 days\",\"period\":null,\"isHistory\":true},\"type\":\"marine\",\"details\":[]}",
   "{\"location\":\"Hà Nội\",\"time\":null,\"type\":\"weather\",\"details\":[]}"}

AiBehaviours ==
  {[kind |-> "throws", text |-> NULL]} \cup {[kind |-> "text", text |-> t] : t \in AiTexts}

\* response.match(/\{[\s\S]*\}/): the text from the first "{" to the last
\* "}" (no entry: no match).
JsonMatchOf ==
  [t \in AiTexts \ {"Xin lỗi, tôi không hiểu câu hỏi.",
                    "Kết quả: {\"location\":\"Hà Nội\",\"type\":\"forecast\"} nhé."} |-> t]
    @@ ("Kết quả: {\"location\":\"Hà Nội\",\"type\":\"forecast\"} nhé." :>
          "{\"location\":\"Hà Nội\",\"type\":\"forecast\"}")

\* JSON.parse (no entry: SyntaxError).
JsonOf ==
  ("{\"location\":\"Hà Nội\",\"time\":{\"type\":\"current\",\"value\":null,\"period\":null,\"isHistory\":false},\"type\":\"current\",\"details\":[\"temperature\"]}" :>
      Intent("Hà Nội", TimeObj("current", NULL, NULL, "false"), "current",
             "[\"temperature\"]")) @@
  ("{\"location\":\"Hà Nội\",\"time\":{\"type\":\"history\",\"value\":\"2024-04-30\",\"period\":null,\"isHistory\":true},\"type\":\"weather\",\"details\":[]}" :>
      Intent("Hà Nội", TimeObj("history", "2024-04-30", NULL, "true"), "weather", "[]")) @@
  ("{\"location\":\"Hà Nội\",\"time\":{\"type\":\"range\",\"value\":\"3 days\",\"period\":null,\"isHistory\":false},\"type\":\"rain\",\"details\":[]}" :>
      Intent("Hà Nội", TimeObj("range", "3 days", NULL, "false"), "rain", "[]")) @@
  ("{}" :>
      Intent(Undefined, NoTimeObj(Undefined), Undefined, Undefined)) @@
  ("{\"location\":\"Hà Nội\",\"type\":\"forecast\"}" :>
      Intent("Hà Nội", NoTimeObj(Undefined), "forecast", Undefined)) @@
  ("{\"location\":\"Hà Nội\",\"time\":null,\"type\":\"current\",\"details\":[]}" :>
      Intent("Hà Nội", NoTimeObj(NULL), "current", "[]")) @@
  ("{\"location\":null,\"time\":{\"type\":\"specific\"},\"type\":\"temperature\"}" :>
      Intent(NULL, TimeObj("specific", Undefined, Undefined, Undefined),
             "temperature", Undefined)) @@
  ("{\"location\":\"Huế\",\"time\":{\"type\":\"future\",\"value\":\"2024-06-01\",\"period\":null,\"isHistory\":false},\"type\":\"prediction\",\"details\":[]}" :>
      Intent("Huế", TimeObj("future", "2024-06-01", NULL, "false"), "prediction", "[]")) @@
  ("{\"location\":\"Huế\",\"time\":{\"type\":\"range\",\"value\":\"7 days\",\"period\":null,\"isHistory\":true},\"type\":\"past\",\"details\":[]}" :>
      Intent("Huế", TimeObj("range", "7 days", NULL, "true"), "past", "[]")) @@
  ("{\"location\":\"Nha Trang\",\"time\":{\"type\":\"range\",\"value\":\"7 days\",\"period\":null,\"isHistory\":true},\"type\":\"marine\",\"details\":[]}" :>
      Intent("Nha Trang", TimeObj("range", "7 days", NULL, "true"), "marine", "[]")) @@
  ("{\"location\":\"Hà Nội\",\"time\":null,\"type\":\"weather\",\"details\":[]}" :>
      Intent("Hà Nội", NoTimeObj(NULL), "weather", "[]"))

\* A repair that looks at time.type before time.isHistory.
RepairedTypeByTimeType(analysis) ==
  IF analysis.time.type \in {"range", "future"} THEN "forecast"
  ELSE IF analysis.time.isHistory = "true" THEN "history"
  ELSE "current"

\* The repair of a type outside validTypes, by analysis.time?.isHistory and
\* analysis.time?.type.
RepairedType(analysis) ==
  IF analysis.time.isHistory = "true" THEN "history"
  ELSE IF analysis.time.type \in {"range", "future"} THEN "forecast"
  ELSE "current"

analyzeQuestion(question, ai, today) ==
  IF ai.kind = "throws" \/ ai.text \notin DOMAIN JsonMatchOf
       \/ JsonMatchOf[ai.text] \notin DOMAIN JsonOf
  THEN manualAnalyzeQuestion(question, today)
  ELSE LET analysis == JsonOf[JsonMatchOf[ai.text]]
       IN  IF analysis.type \in validTypes THEN analysis
           ELSE [analysis EXCEPT !.type = RepairedType(analysis)]

\* analyzeQuestion(question) is called and awaits model.generateContent.
AskStart(question) ==
  /\ ask.pc \in {"idle", "done"}
  /\ issued < limit
  /\ issued' = issued + 1
  /\ ask' = [IdleAsk EXCEPT !.pc = "generate", !.question = question]
  /\ UNCHANGED <<now, store, proc, limit, workload, chat, chats, sub, xfer,
                 gate, hist, genRetry>>

\* The generative call settles and analyzeQuestion returns or throws.
AskRespond(ai) ==
  /\ ask.pc = "generate"
  /\ ask' = [ask EXCEPT !.pc = "done", !.ai = ai,
                        !.out = analyzeQuestion(ask.question, ai, Today)]
  /\ UNCHANGED <<now, store, proc, issued, limit, workload, chat, chats, sub,
                 xfer, gate, hist, genRetry>>

InitAsk ==
  /\ now = 0
  /\ store = << >>
  /\ proc = [p \in Procs |-> IdleProc]
  /\ issued = 0
  /\ limit = MaxAsks
  /\ workload = {}
  /\ chat = IdleChat
  /\ chats = << >>
  /\ sub = NoSubResponse
  /\ xfer = IdleXfer
  /\ ask = IdleAsk /\ gate = IdleGate /\ hist = IdleHist
  /\ genRetry = IdleGenRetry

NextAsk ==
  \/ \E q \in Questions : AskStart(q)
  \/ \E ai \in AiBehaviours : AskRespond(ai)

SpecAsk == InitAsk /\ [][NextAsk]_vars

\* C22: for every question string and every behaviour of the generative
\* call, the resolver returns without throwing and the type of the intent
\* it returns is one of validTypes.
C22_ResolverTypeAlwaysValid ==
  ask.pc = "done" =>
    /\ ~IsThrown(ask.out)
    /\ ask.out.type \in validTypes

\* The intent has location, time with type/value/period/isHistory, type
\* and details.
FullyPopulated(a) ==
  /\ a.location # Undefined
  /\ a.time.is = "object"
  /\ \A f \in {"type", "value", "period", "isHistory"} : a.time[f] # Undefined
  /\ a.type # Undefined
  /\ a.details # Undefined

\* C23: the resolver's output is always a fully-populated intent, on the AI
\* path as well as on the fallback path.
C23_IntentFullyPopulated ==
  (ask.pc = "done" /\ ~IsThrown(ask.out)) => FullyPopulated(ask.out)

(***************************************************************************)
(* Failures of the generative model                                        *)
(***************************************************************************)
\* C24: a failure of the generative call in question analysis is never
\* surfaced: analyzeQuestion still returns an intent (from the rule-based
\* fallback), so the turn is not ended by an error.
C24_AiFailureAbsorbed ==
  (ask.pc = "done" /\ ask.ai.kind = "throws") => ~IsThrown(ask.out)

\* C25: when every generative attempt of the composer fails, the answer is
\* the templated fallback built from the gathered weather fields, whatever
\* the error was.
C25_FallbackOnAnyAiError ==
  (chat.pc = "done" /\ IsThrown(chat.gen)) => chat.answer \in FallbackAnswers

\* C26: the answer produced for a chat turn is a non-empty string on every
\* path: composed by the model or by the fallback, and the apologies for an
\* unresolved location and for missing weather data.
C26_AnswerNonEmpty ==
  /\ (chat.pc = "done" /\ chat.gen # Returned(NULL)) => Truthy(chat.answer)
  /\ (chat.pc = "done" /\ chat.resp.status = 200) => Truthy(chat.resp.answer)

\* C28: every chat turn answered with a success response has persisted one
\* chat record carrying its question and answer, and returns it.
C28_OneRecordPerTurn ==
  (chat.pc = "done" /\ chat.resp.status = 200) =>
    /\ chat.resp.saved
    /\ Len(chats) >= 1
    /\ chats[Len(chats)].question = chat.question
    /\ chats[Len(chats)].answer = chat.resp.answer

(***************************************************************************)
(* The seven-day plausibility gate (getSevenDayForecast)                   *)
(***************************************************************************)
MaxGateRuns == 1

\* The aggregated real days of processedData.forecast (temperature,
\* rounded humidity, wind speed, weather[0].main), oldest first.
RealDay(temp, humidity, wind, main) ==
  [src |-> "openweathermap", temp |-> temp, humidity |-> humidity,
   wind |-> wind, main |-> main, icon |-> "real"]

RealForecasts ==
  { <<RealDay(24, 80, 3, "Clear"), RealDay(26, 80, 3, "Clouds"), RealDay(28, 80, 3, "Rain"),
      RealDay(26, 80, 3, "Rain"), RealDay(26, 80, 3, "Clear")>>,
    <<RealDay(20, 85, 7, "Rain"), RealDay(25, 90, 7, "Rain"), RealDay(31, 95, 8, "Clouds"),
      RealDay(22, 88, 7, "Mist"), RealDay(24, 91, 7, "Rain")>>,
    <<RealDay(40, 10, 1, "Clear"), RealDay(24, 80, 3, "Clear"), RealDay(26, 80, 3, "Clouds"),
      RealDay(28, 80, 3, "Rain"), RealDay(26, 80, 3, "Rain"), RealDay(26, 80, 3, "Clear")>> }

\* processedData.forecast.slice(-5)
Last5(days) ==
  IF Len(days) <= 5 THEN days ELSE SubSeq(days, Len(days) - 4, Len(days))

RECURSIVE SumOf(_, _)
SumOf(days, field) ==
  IF days = << >> THEN 0 ELSE Head(days)[field] + SumOf(Tail(days), field)

RECURSIVE MaxOf(_, _)
MaxOf(days, field) ==
  IF Len(days) = 1 THEN Head(days)[field]
  ELSE LET m == MaxOf(Tail(days), field)
       IN  IF Head(days)[field] > m THEN Head(days)[field] ELSE m

RECURSIVE MinOf(_, _)
MinOf(days, field) ==
  IF Len(days) = 1 THEN Head(days)[field]
  ELSE LET m == MinOf(Tail(days), field)
       IN  IF Head(days)[field] < m THEN Head(days)[field] ELSE m

Max2(a, b) == IF a > b THEN a ELSE b

Min2(a, b) == IF a < b THEN a ELSE b

\* weatherMapping: its own keys ...
weatherMapping ==
  ("Clear" :> "01d") @@ ("Clouds" :> "02d") @@ ("Rain" :> "10d") @@
  ("Thunderstorm" :> "11d") @@ ("Snow" :> "13d") @@ ("Mist" :> "50d")

\* ... and keys every object literal inherits from Object.prototype, for
\* which weatherMapping[key] is truthy as well.
InheritedKeys == {"constructor", "toString", "__proto__"}

\* weatherMapping[weatherMain] is truthy.
MappingHas(main) == main \in DOMAIN weatherMapping \cup InheritedKeys

\* weatherMapping[main].icon
MappingIcon(main) ==
  IF main \in DOMAIN weatherMapping THEN weatherMapping[main] ELSE Undefined

\* validatePrediction(day, dayNum) against the trend of the last five real
\* days.  The averages are sums over n days, so each comparison is scaled
\* by n: temp < avgTemp - tempRange is n*temp < sumTemp - n*tempRange.
validatePrediction(day, days) ==
  LET last5     == Last5(days)
      n         == Len(last5)
      sumTemp   == SumOf(last5, "temp")
      tempRange == MaxOf(last5, "temp") - MinOf(last5, "temp")
      sumHum    == SumOf(last5, "humidity")
      sumWind   == SumOf(last5, "wind")
  IN  /\ ~(n * day.temp < sumTemp - n * tempRange \/ n * day.temp > sumTemp + n * tempRange)
      /\ ~(n * day.humidity < Max2(0, sumHum - 20 * n)
             \/ n * day.humidity > Min2(100 * n, sumHum + 20 * n))
      /\ ~(n * day.wind < Max2(0, sumWind - 5 * n) \/ n * day.wind > sumWind + 5 * n)
      /\ MappingHas(day.main)

\* A day of the model's JSON reply.
PredictedDay(temp, humidity, wind, main) ==
  [src |-> "gemini", temp |-> temp, humidity |-> humidity, wind |-> wind,
   main |-> main, icon |-> "predicted"]

\* Predicted days: a day inside every range of the first two real
\* forecasts, and that day with one value replaced.
PredictedDays ==
  {PredictedDay(26, 80, 3, "Clear")}
    \cup {PredictedDay(t, 80, 3, "Clear") : t \in {13, 14, 21, 22, 30, 31, 35, 36}}
    \cup {PredictedDay(26, h, 3, "Clear") : h \in {59, 60, 69, 70, 100, 101}}
    \cup {PredictedDay(26, 80, w, "Clear") : w \in {-1, 0, 2, 8, 9, 12, 13}}
    \cup {PredictedDay(26, 80, 3, m) : m \in {"Rain", "Tornado", "clear", "constructor"}}

\* The generative call: it rejects, or replies with a text without "{...}",
\* with braces that do not parse, with an object lacking day6 or day7, or
\* with an object holding both days.
GateReplies ==
  {[kind |-> k, day6 |-> PredictedDay(26, 80, 3, "Clear"),
    day7 |-> PredictedDay(26, 80, 3, "Clear")] :
       k \in {"throws", "no_json", "bad_json", "missing_day"}}
    \cup {[kind |-> "json", day6 |-> d6, day7 |-> d7] : d6, d7 \in PredictedDays}

\* predictedData after the try/catch: null unless the reply parses and both
\* days pass validatePrediction; then both days with icon and description
\* taken from weatherMapping.
predictedData(reply, days) ==
  IF reply.kind = "json" /\ validatePrediction(reply.day6, days)
       /\ validatePrediction(reply.day7, days)
  THEN <<[reply.day6 EXCEPT !.icon = MappingIcon(reply.day6.main)],
         [reply.day7 EXCEPT !.icon = MappingIcon(reply.day7.main)]>>
  ELSE << >>

FiveDayNotice == "5 days from OpenWeatherMap (no AI prediction)"

SevenDayNotice == "5 days from OpenWeatherMap and 2 days predicted by AI"

\* processedData after the gate.
GateResult(reply, days) ==
  LET predicted == predictedData(reply, days)
  IN  [forecast |-> days \o predicted,
       notice |-> IF predicted # << >> THEN SevenDayNotice ELSE FiveDayNotice]

\* The real days are aggregated and the handler awaits the generative call.
GateStart(days) ==
  /\ gate.pc \in {"idle", "done"}
  /\ issued < limit
  /\ issued' = issued + 1
  /\ gate' = [IdleGate EXCEPT !.pc = "predict", !.days = days]
  /\ UNCHANGED <<now, store, proc, limit, workload, chat, chats, sub, xfer,
                 ask, hist, genRetry>>

\* The generative call settles; the gate decides what is appended.
GateRespond(reply) ==
  /\ gate.pc = "predict"
  /\ gate' = [gate EXCEPT !.pc = "done", !.ai = reply,
                          !.out = GateResult(reply, gate.days)]
  /\ UNCHANGED <<now, store, proc, issued, limit, workload, chat, chats, sub,
                 xfer, ask, hist, genRetry>>

InitGate ==
  /\ now = 0
  /\ store = << >>
  /\ proc = [p \in Procs |-> IdleProc]
  /\ issued = 0
  /\ limit = MaxGateRuns
  /\ workload = {}
  /\ chat = IdleChat
  /\ chats = << >>
  /\ sub = NoSubResponse
  /\ xfer = IdleXfer
  /\ ask = IdleAsk /\ gate = IdleGate /\ hist = IdleHist
  /\ genRetry = IdleGenRetry

NextGate ==
  \/ \E days \in RealForecasts : GateStart(days)
  \/ \E reply \in GateReplies : GateRespond(reply)

SpecGate == InitGate /\ [][NextGate]_vars

\* The fixed vocabulary of weather categories.
Vocabulary == {"Clear", "Clouds", "Rain", "Thunderstorm", "Snow", "Mist"}

\* The checks as the claim states them, on the averages of the last five
\* real days.
Plausible(day, days) ==
  LET last5     == Last5(days)
      n         == Len(last5)
      sumTemp   == SumOf(last5, "temp")
      tempRange == MaxOf(last5, "temp") - MinOf(last5, "temp")
      sumHum    == SumOf(last5, "humidity")
      sumWind   == SumOf(last5, "wind")
  IN  /\ sumTemp - n * tempRange <= n * day.temp /\ n * day.temp <= sumTemp + n * tempRange
      /\ Max2(0, sumHum - 20 * n) <= n * day.humidity
      /\ n * day.humidity <= Min2(100 * n, sumHum + 20 * n)
      /\ Max2(0, sumWind - 5 * n) <= n * day.wind /\ n * day.wind <= sumWind + 5 * n
      /\ day.main \in Vocabulary

\* C27: the two predicted days are appended, with the 7-day notice, only
\* when the reply holds both days and both pass every check; otherwise - a
\* value out of range, a category outside the vocabulary, a failed call, no
\* parseable JSON - the forecast holds only the real days and the notice is
\* the 5-day-only text.
C27_PlausibilityGate ==
  gate.pc = "done" =>
    IF gate.ai.kind = "json" /\ Plausible(gate.ai.day6, gate.days)
         /\ Plausible(gate.ai.day7, gate.days)
    THEN /\ Len(gate.out.forecast) = Len(gate.days) + 2
         /\ SubSeq(gate.out.forecast, 1, Len(gate.days)) = gate.days
         /\ gate.out.notice = SevenDayNotice
    ELSE /\ gate.out.forecast = gate.days
         /\ gate.out.notice = FiveDayNotice

(***************************************************************************)
(* Chat history (getChatHistory)                                           *)
(***************************************************************************)
MaxHistRequests == 2

\* .limit(50)
HistoryLimit == 50

\* A chat record as processWeatherQuestion creates it.
ChatRecord(question, answer, sessionId, timestamp) ==
  [question |-> question, answer |-> answer, sessionId |-> sessionId,
   location |-> "Hanoi", timestamp |-> timestamp]

\* The chat collection after k turns of two sessions: records in the order
\* of their creation, timestamps never decreasing, two turns in a row
\* falling into the same millisecond, every fifth turn of session "s2".
ChatStore(k) ==
  [i \in 1..k |->
     ChatRecord("question",
                IF i % 2 = 0 THEN "ai" ELSE "unavailable",
                IF i % 5 = 0 THEN "s2" ELSE "s1",
                (i + 1) \div 2)]

\* Sizes that leave session "s1" with 0, 1, 3, 49, 50, 51, 52 and 53 records.
StoreSizes == {0, 1, 3, 61, 62, 63, 64, 66}

\* Chat.find({ sessionId })
find(docs, sessionId) == SelectSeq(docs, LAMBDA d : d.sessionId = sessionId)

\* .sort({ timestamp: -1 }): newest first; the order among equal timestamps
\* is the store's choice (ties): the order of creation, or its reverse.
sort(docs, ties) ==
  LET n == Len(docs)
      Before(j, i) ==
        \/ docs[j].timestamp > docs[i].timestamp
        \/ /\ docs[j].timestamp = docs[i].timestamp
           /\ IF ties = "first" THEN j < i ELSE j > i
      rank == [i \in 1..n |-> Cardinality({j \in 1..n : Before(j, i)}) + 1]
  IN  [k \in 1..n |-> docs[CHOOSE i \in 1..n : rank[i] = k]]

\* A limit that lets every document through.
limitDocsNone(docs, n) == docs

\* .limit(n)
limitDocs(docs, n) == IF Len(docs) <= n THEN docs ELSE SubSeq(docs, 1, n)

\* GET /chat/history arrives: 400 without sessionId, else the handler awaits
\* the query.
HistStart(sessionId) ==
  /\ hist.pc \in {"idle", "done"}
  /\ issued < limit
  /\ issued' = issued + 1
  /\ hist' = IF ~Truthy(sessionId)
             THEN [IdleHist EXCEPT !.pc = "done", !.status = 400]
             ELSE [IdleHist EXCEPT !.pc = "find", !.sessionId = sessionId]
  /\ UNCHANGED <<now, store, proc, limit, workload, chat, chats, sub, xfer,
                 ask, gate, genRetry>>

\* The query resolves with the page, or rejects.
HistRespond(ties, outcome) ==
  /\ hist.pc = "find"
  /\ hist' = IF outcome = "ok"
             THEN [hist EXCEPT !.pc = "done", !.reads = @ + 1, !.status = 200,
                     !.readLen = Len(chats),
                     !.history = limitDocs(sort(find(chats, hist.sessionId), ties),
                                           HistoryLimit)]
             ELSE [hist EXCEPT !.pc = "done", !.reads = @ + 1, !.status = 500]
  /\ UNCHANGED <<now, store, proc, issued, limit, workload, chat, chats, sub,
                 xfer, ask, gate, genRetry>>

\* A chat turn of the session completes in between and persists its record,
\* in the millisecond of the newest stored record or in a later one.
HistChatTurn(sessionId, later) ==
  /\ hist.pc \in {"idle", "done"}
  /\ issued < limit
  /\ issued' = issued + 1
  /\ LET newest == IF chats = << >> THEN 0 ELSE chats[Len(chats)].timestamp
     IN  chats' = Append(chats, ChatRecord("question", "ai", sessionId,
                                           IF later THEN newest + 1 ELSE newest))
  /\ UNCHANGED <<now, store, proc, limit, workload, chat, sub, xfer,
                 ask, gate, hist, genRetry>>

InitHist ==
  /\ now = 0
  /\ store = << >>
  /\ proc = [p \in Procs |-> IdleProc]
  /\ issued = 0
  /\ limit = MaxHistRequests
  /\ workload = {}
  /\ chat = IdleChat
  /\ \E k \in StoreSizes : chats = ChatStore(k)
  /\ sub = NoSubResponse
  /\ xfer = IdleXfer
  /\ ask = IdleAsk /\ gate = IdleGate /\ hist = IdleHist
  /\ genRetry = IdleGenRetry

NextHist ==
  \/ \E s \in {NULL, "", "s1", "s2", "s3"} : HistStart(s)
  \/ \E ties \in {"first", "last"}, o \in DbOutcomes : HistRespond(ties, o)
  \/ \E s \in {"s1", "s2"}, later \in BOOLEAN : HistChatTurn(s, later)

SpecHist == InitHist /\ [][NextHist]_vars

\* How many documents of docs satisfy Test.
CountOf(docs, Test(_)) == Cardinality({i \in 1..Len(docs) : Test(docs[i])})

\* C29: the history of a sessionId holds only records of that session,
\* newest first, at most 50 of them, and they are the newest ones: as many
\* as 50 or all matching records, each returned record is stored, and every
\* stored record newer than the oldest one returned is returned (stored:
\* at the time of the read).  Without a sessionId the response is 400 and
\* the store is not read.
C29_HistoryNewestFifty ==
  /\ (hist.pc = "done" /\ hist.status = 200) =>
       LET h       == hist.history
           matches == find(SubSeq(chats, 1, hist.readLen), hist.sessionId)
       IN  /\ \A i \in 1..Len(h) : h[i].sessionId = hist.sessionId
           /\ \A i \in 1..(Len(h) - 1) : h[i].timestamp >= h[i + 1].timestamp
           /\ Len(h) <= 50
           /\ Len(h) = Min2(50, Len(matches))
           /\ \A i \in 1..Len(h) :
                CountOf(h, LAMBDA d : d = h[i]) <= CountOf(matches, LAMBDA d : d = h[i])
           /\ Len(h) > 0 =>
                CountOf(matches, LAMBDA d : d.timestamp > h[Len(h)].timestamp)
                  = CountOf(h, LAMBDA d : d.timestamp > h[Len(h)].timestamp)
  /\ (hist.pc = "done" /\ ~Truthy(hist.sessionId)) =>
       (hist.status = 400 /\ hist.reads = 0 /\ hist.history = << >>)

\* A session with more than 50 records was asked for and 50 came back.
C29_Witness ==
  /\ hist.pc = "done" /\ hist.status = 200
  /\ Len(find(SubSeq(chats, 1, hist.readLen), hist.sessionId)) > 50
  /\ Len(hist.history) = 50

(***************************************************************************)
(* C30: lifecycle of alert subscriptions                                   *)
(***************************************************************************)
IsSubscription(doc) == doc.type = "alert_subscription"

ActiveOf(docs, deviceId) ==
  {i \in 1..Len(docs) :
     IsSubscription(docs[i]) /\ docs[i].deviceId = deviceId /\ docs[i].active = "true"}

\* The step is a subscribe or unsubscribe request (they run to completion
\* and leave the weather handlers' state alone).
SubscriptionStep == issued' # issued /\ proc' = proc

\* Every step keeps each subscription record in place, changing at most
\* its active flag.  An unsubscribe answered with success had an active
\* subscription of the device to work on, leaves none, and changes no
\* record of another device; an unsubscribe for a device without an active
\* subscription changes nothing and is answered with 404, unless it was
\* turned away before the update (400) or the store failed (500); and 404
\* is answered in no other case.
LifecycleStep ==
  /\ Len(store') >= Len(store)
  /\ \A i \in 1..Len(store) :
       IsSubscription(store[i]) => [store'[i] EXCEPT !.active = store[i].active] = store[i]
  /\ (SubscriptionStep /\ sub'.op = "unsubscribe" /\ sub'.status = 200) =>
       /\ ActiveOf(store, sub'.deviceId) # {}
       /\ ActiveOf(store', sub'.deviceId) = {}
       /\ \A i \in 1..Len(store) :
            store'[i] # store[i] =>
              (IsSubscription(store[i]) /\ store[i].deviceId = sub'.deviceId)
  /\ (SubscriptionStep /\ sub'.op = "unsubscribe"
        /\ ActiveOf(store, sub'.deviceId) = {}) =>
       /\ store' = store
       /\ sub'.status \in {400, 404, 500}
  /\ (SubscriptionStep /\ sub'.op = "unsubscribe" /\ sub'.status = 404) =>
       /\ ActiveOf(store, sub'.deviceId) = {}
       /\ store' = store

BodyKeyed(r) == r.query = NULL /\ Truthy(r.deviceId)

\* The store answered (a failing store gives 500 on any route).
StoreAnswered(r) == r.status # 500

BodyKeyedStep ==
  (SubscriptionStep /\ BodyKeyed(sub') /\ StoreAnswered(sub')) =>
     /\ (sub'.op = "unsubscribe" /\ ActiveOf(store, sub'.deviceId) # {}) =>
          /\ sub'.status = 200
          /\ ActiveOf(store', sub'.deviceId) = {}
     /\ (sub'.op = "subscribe" /\ Truthy(sub'.location)
           /\ Len(searchLocation(sub'.location)) > 0
           /\ sub'.error # "Invalid severity level") =>
          /\ sub'.status = 200
          /\ Len(store') = Len(store) + 1
          /\ ActiveOf(store', sub'.deviceId) # {}

\* C31: an unsubscribe whose body carries a deviceId with an active
\* subscription, and whose query string carries no location or coordinates,
\* reaches the handler and deactivates the subscription; a subscribe whose
\* body carries a deviceId and a geocodable location, with no query
\* parameters, creates an active subscription.
C31_KeyedByBodyDeviceId == [][BodyKeyedStep]_vars

(***************************************************************************)
(* C32: the newest of several fresh matching records                       *)
(***************************************************************************)
\* Requests issued in one behaviour of the duplicate-record specification.
MaxDupRequests == 3

\* Time passes while handlers are suspended at an await as well as between
\* requests, so that two handlers that both missed write at different times.
Elapse ==
  /\ \E t \in ClockValues(workload) : t > now /\ now' = t
  /\ UNCHANGED <<store, proc, issued, limit, workload, chat, chats, sub, xfer, ask, gate, hist, genRetry>>

InitDup ==
  /\ now = 0
  /\ store = << >>
  /\ proc = [p \in Procs |-> IdleProc]
  /\ issued = 0
  /\ limit = MaxDupRequests
  /\ \E a \in Requests : workload = {a}
  /\ chat = IdleChat
  /\ chats = << >>
  /\ sub = NoSubResponse
  /\ xfer = IdleXfer
  /\ ask = IdleAsk /\ gate = IdleGate /\ hist = IdleHist
  /\ genRetry = IdleGenRetry

NextDup ==
  \/ \E p \in Procs, r \in Requests : Start(p, r)
  \/ \E p \in Procs : Geocode(p)
  \/ \E p \in Procs, o \in DbOutcomes : Lookup(p, o)
  \/ \E p \in Procs, o \in {"ok", "ok_no_alert", "http_error", "net_error"},
        c \in OwmCityNames \cup {NULL} : Call(p, o, c)
  \/ \E p \in Procs, o \in DbOutcomes : Save(p, o)
  \/ Elapse

SpecDup == InitDup /\ [][NextDup]_vars

OnAiPath(a) ==
  /\ a.pc = "done"
  /\ a.ai.kind = "text"
  /\ a.ai.text \in DOMAIN JsonMatchOf
  /\ JsonMatchOf[a.ai.text] \in DOMAIN JsonOf

ParsedOf(a) == JsonOf[JsonMatchOf[a.ai.text]]

\* C33: on the AI path a parsed type outside the eight allowed values
\* becomes history when time.isHistory is true, else forecast when
\* time.type is range or future, else current; an allowed type is returned
\* as parsed whatever the time fields say; nothing else of the parsed
\* object is changed.
C33_TypeReclassified ==
  OnAiPath(ask) =>
    LET parsed == ParsedOf(ask)
    IN  /\ ~IsThrown(ask.out)
        /\ parsed.type \in validTypes => ask.out = parsed
        /\ parsed.type \notin validTypes =>
             /\ ask.out.type =
                  (IF parsed.time.isHistory = "true" THEN "history"
                   ELSE IF parsed.time.type = "range" \/ parsed.time.type = "future"
                        THEN "forecast"
                   ELSE "current")
             /\ [ask.out EXCEPT !.type = parsed.type] = parsed

\* A parsed object with an unknown type whose time is both a range and
\* history was reclassified as history.
C33_Witness ==
  /\ OnAiPath(ask)
  /\ ParsedOf(ask).type \notin validTypes
  /\ ParsedOf(ask).time.isHistory = "true"
  /\ ParsedOf(ask).time.type = "range"
  /\ ask.out.type = "history"

(***************************************************************************)
(* C34-C36: the rule-based fallback (manualAnalyzeQuestion)                *)
(***************************************************************************)
\* analyzeQuestion ended in its catch block and the rule-based analysis
\* returned an intent.
OnFallbackPath(a) == a.pc = "done" /\ ~OnAiPath(a) /\ ~IsThrown(a.out)

\* C34: whenever the question matches a history pattern the rule-based
\* intent has type history and time.isHistory true, also when the question
\* contains a forecast, marine, astronomy, alerts or timezone keyword.
C34_HistoryPatternWins ==
  (OnFallbackPath(ask) /\ QuestionFacts[ask.question].pattern # 0) =>
    /\ ask.out.type = "history"
    /\ ask.out.time.isHistory = "true"

\* The date written in a dd/mm/yyyy question, as yyyy-mm-dd.
WrittenDate ==
  ("Thời tiết ngày 15/03/2024 ở Huế" :> "2024-03-15")

\* C35: the rule-based history date is today minus N days for "N days ago"
\* (both wordings), today minus one day for "yesterday", and for an
\* explicit dd/mm/yyyy the date written in the question, zero-padded.
C35_HistoryDateConcrete ==
  (OnFallbackPath(ask) /\ QuestionFacts[ask.question].pattern # 0) =>
    LET f == QuestionFacts[ask.question]
    IN  ask.out.time.value =
          CASE f.pattern \in {1, 3} -> ISODate[Today - f.m1]
            [] f.pattern = 2        -> ISODate[Today - 1]
            [] f.pattern = 4        -> WrittenDate[ask.question]

\* for (...) if / else if: the order in which the keyword categories are
\* tested.
KeywordOrder == <<"forecast", "marine", "astronomy", "alerts", "timezone">>

\* C36: the keyword categories are tested in the order forecast, marine,
\* astronomy, alerts, timezone and the first one present gives the type; a
\* question with no history pattern and no keyword gets type current, a
\* null location and empty details.
C36_FirstKeywordWins ==
  OnFallbackPath(ask) =>
    LET f       == QuestionFacts[ask.question]
        present == { i \in 1..Len(KeywordOrder) : KeywordOrder[i] \in f.has }
    IN  /\ present # {} =>
             \E i \in present :
               /\ \A j \in present : i <= j
               /\ ask.out.type = KeywordOrder[i]
        /\ (present = {} /\ f.pattern = 0) =>
             /\ ask.out.type = "current"
             /\ ask.out.location = NULL
             /\ ask.out.details = "[]"

\* A question with keywords of two categories, neither of them the first of
\* the chain, got the earlier of the two.
C36_Witness ==
  /\ OnFallbackPath(ask)
  /\ QuestionFacts[ask.question].has = {"marine", "alerts"}
  /\ ask.out.type = "marine"

(***************************************************************************)
(* C37: generateWithRetry, step by step                                    *)
(***************************************************************************)
\* generateWithRetry calls in one behaviour.
MaxGenCalls == 3

\* The client a generateContent attempt runs on: the module's const model,
\* or the one a later initGemini() returned.
Clients == {"initial", "fresh"}

\* setTimeout(resolve, Math.pow(2, i) * 1000)
Pow2 == [i \in 0..3 |-> CASE i = 0 -> 1 [] i = 1 -> 2 [] i = 2 -> 4 [] i = 3 -> 8]

BackoffMs(i) == Pow2[i] * 1000

\* The client the module-level binding `model` holds: it is a const, so no
\* assignment ever replaces the one bound when the module loaded.
ClientInUse(r) == "initial"

\* generateWithRetry(prompt) is called: i = 0, lastError = null.
GenCall ==
  /\ genRetry.pc \in {"idle", "done"}
  /\ issued < limit
  /\ issued' = issued + 1
  /\ genRetry' = [IdleGenRetry EXCEPT !.pc = "attempt"]
  /\ UNCHANGED <<now, store, proc, limit, workload, chat, chats, sub, xfer,
                 ask, gate, hist>>

\* One pass of the try block: the model check and await
\* model.generateContent(prompt).  A text is returned at once; a failure is
\* kept as lastError and the backoff timer is started.
GenAttempt(outcome) ==
  /\ genRetry.pc = "attempt"
  /\ LET made == Append(genRetry.attempts,
                        [outcome |-> outcome, client |-> ClientInUse(genRetry)])
     IN  genRetry' =
           IF outcome \in GenFailures
           THEN [genRetry EXCEPT !.attempts = made, !.pc = "backoff"]
           ELSE [genRetry EXCEPT !.attempts = made, !.pc = "done",
                   !.result = generateWithRetry([k \in 1..Len(made) |-> made[k].outcome],
                                                NULL)]
  /\ UNCHANGED <<now, store, proc, issued, limit, workload, chat, chats, sub,
                 xfer, ask, gate, hist>>

\* The backoff timer fires; in the pass with i = maxRetries - 1 initGemini()
\* is called, and then the loop goes on to i + 1: another attempt, or - the
\* loop being over - throw lastError (or the TypeError of the assignment).
GenBackoff(reinit) ==
  /\ genRetry.pc = "backoff"
  /\ LET i        == genRetry.i
         last     == i = maxRetries - 1
         waited   == [genRetry EXCEPT !.waits = Append(@, BackoffMs(i))]
         outcomes == [k \in 1..Len(genRetry.attempts) |-> genRetry.attempts[k].outcome]
     IN  IF last
         THEN genRetry' = [waited EXCEPT !.pc = "done", !.reinit = reinit,
                             !.reinitAfter = Len(genRetry.attempts),
                             !.result = generateWithRetry(outcomes, reinit)]
         ELSE /\ reinit = "null"
              /\ genRetry' = [waited EXCEPT !.pc = "attempt", !.i = i + 1]
  /\ UNCHANGED <<now, store, proc, issued, limit, workload, chat, chats, sub,
                 xfer, ask, gate, hist>>

InitGen ==
  /\ now = 0
  /\ store = << >>
  /\ proc = [p \in Procs |-> IdleProc]
  /\ issued = 0
  /\ limit = MaxGenCalls
  /\ workload = {}
  /\ chat = IdleChat
  /\ chats = << >>
  /\ sub = NoSubResponse
  /\ xfer = IdleXfer
  /\ ask = IdleAsk /\ gate = IdleGate /\ hist = IdleHist
  /\ genRetry = IdleGenRetry

NextGen ==
  \/ GenCall
  \/ \E o \in GenAttemptOutcomes : GenAttempt(o)
  \/ \E r \in ReinitOutcomes : GenBackoff(r)

SpecGen == InitGen /\ [][NextGen]_vars

\* The backoff delays of the first, second and third failure.
Backoffs == <<1000, 2000, 4000>>

AttemptsBounded ==
  /\ Len(genRetry.attempts) <= maxRetries
  /\ \A k \in 1..(Len(genRetry.attempts) - 1) :
       genRetry.attempts[k].outcome \in GenFailures

BackoffDoubles ==
  /\ Len(genRetry.waits) <= Len(Backoffs)
  /\ \A k \in 1..Len(genRetry.waits) : genRetry.waits[k] = Backoffs[k]
  /\ genRetry.pc \in {"attempt", "done"} =>
       Len(genRetry.waits) =
         Cardinality({k \in 1..Len(genRetry.attempts) :
                        genRetry.attempts[k].outcome \in GenFailures})

FinalAttemptOnFreshClient ==
  Len(genRetry.attempts) = maxRetries =>
    /\ genRetry.reinit # NULL
    /\ genRetry.reinitAfter = maxRetries - 1
    /\ genRetry.attempts[maxRetries].client = "fresh"

LastErrorRaised ==
  (genRetry.pc = "done" /\ Len(genRetry.attempts) > 0
     /\ genRetry.attempts[Len(genRetry.attempts)].outcome \in GenFailures) =>
    /\ Len(genRetry.attempts) = maxRetries
    /\ genRetry.result = Thrown(genRetry.attempts[maxRetries].outcome)

\* C37: one generateWithRetry call makes at most 3 attempts and returns on
\* the first success; it waits 1 s, 2 s and 4 s after the first, second and
\* third failure; the client is reinitialised before the third attempt,
\* which runs on the fresh client; after the third failure the error is
\* raised to the caller.
C37_RetryBackoffReinit ==
  /\ AttemptsBounded
  /\ BackoffDoubles
  /\ FinalAttemptOnFreshClient
  /\ LastErrorRaised

(***************************************************************************)
(* C38: a geocoding call that fails                                        *)
(***************************************************************************)
\* Requests issued in one behaviour of the geocoding specification.
MaxGeoRequests == 2

\* How the axios.get of searchLocation ends: a 2xx answer, a non-2xx
\* answer, the 10 s timeout, or a transport error.
GeocoderOutcomes == {"ok", "http_error", "timeout", "net_error"}

GeocoderFailures == GeocoderOutcomes \ {"ok"}

\* A searchLocation without its try / catch: the error reaches the handler.
searchLocationUncaught(query, outcome) ==
  IF outcome = "ok" THEN Returned(searchLocation(query)) ELSE Thrown(outcome)

\* searchLocation with the outcome of its request: the catch block logs the
\* error and returns [].
searchLocationCall(query, outcome) ==
  IF outcome = "ok" THEN Returned(searchLocation(query)) ELSE Returned(<< >>)

\* locationData = await searchLocation(location) with a geocoder that may
\* fail: an empty list throws "Location not found"; an error thrown by
\* searchLocation would go to the handler's catch and handleError.
GeocodeCall(p, outcome) ==
  /\ proc[p].pc = "geocode"
  /\ LET pr   == proc[p]
         res  == searchLocationCall(pr.rq.location, outcome)
         seen == [pr EXCEPT !.geo = @ + 1, !.geoRes = outcome]
     IN  proc' = [proc EXCEPT ![p] =
           CASE IsThrown(res) ->
                  [seen EXCEPT !.pc = "done",
                     !.resp = handleError(pr.rq.ep,
                                IF res.thrown = "http_error" THEN UpstreamErrorStatus ELSE 0,
                                "Geocoding failed")]
             [] ~IsThrown(res) /\ Len(res.value) = 0 ->
                  [seen EXCEPT !.pc = "done",
                     !.resp = handleError(pr.rq.ep, 0, "Location not found")]
             [] OTHER ->
                  [seen EXCEPT !.pc = "lookup", !.ld = res.value[1]]]
  /\ UNCHANGED <<now, store, issued, limit, workload, chat, chats, sub, xfer,
                 ask, gate, hist, genRetry>>

InitGeo ==
  /\ now = 0
  /\ store = << >>
  /\ proc = [p \in Procs |-> IdleProc]
  /\ issued = 0
  /\ limit = MaxGeoRequests
  /\ \E a \in Requests : workload = {a}
  /\ chat = IdleChat
  /\ chats = << >>
  /\ sub = NoSubResponse
  /\ xfer = IdleXfer
  /\ ask = IdleAsk /\ gate = IdleGate /\ hist = IdleHist
  /\ genRetry = IdleGenRetry

NextGeo ==
  \/ \E r \in Requests : Start(1, r)
  \/ \E o \in GeocoderOutcomes : GeocodeCall(1, o)
  \/ \E o \in DbOutcomes : Lookup(1, o)
  \/ \E o \in {"ok", "ok_no_alert", "http_error", "net_error"}, c \in OwmCityNames \cup {NULL} :
       Call(1, o, c)
  \/ \E o \in DbOutcomes : Save(1, o)
  \/ Tick

SpecGeo == InitGeo /\ [][NextGeo]_vars

\* C38: a request whose geocoding call failed ends exactly as one whose
\* geocoding call found nothing: with the "Location not found" error
\* after one geocoding call, no store lookup, no upstream weather call and
\* no write, and with a status that is not taken from the geocoder's answer.
C38_GeocodingFailureIsEmptyResult ==
  \A p \in Procs :
    (Done(p) /\ proc[p].geoRes \in GeocoderFailures) =>
      /\ proc[p].resp = handleError(proc[p].rq.ep, 0, "Location not found")
      /\ proc[p].resp.status = 500
      /\ proc[p].geo = 1
      /\ proc[p].look = 0
      /\ proc[p].up = 0
      /\ proc[p].wr = 0

\* The geocoder answered a non-2xx status for a name it knows, and the
\* request ended with "Location not found".
C38_Witness ==
  \E p \in Procs :
    /\ Done(p) /\ proc[p].geoRes = "http_error"
    /\ Len(searchLocation(proc[p].rq.location)) > 0
    /\ proc[p].resp.error = "Location not found"
    /\ proc[p].up = 0

(***************************************************************************)
(* C39: notification detail whose alert the upstream answer lacks          *)
(***************************************************************************)
\* The detail request of p missed the store and the upstream alerts answer
\* held no alert with the requested alertId.
AlertNotFound(p) ==
  /\ Done(p)
  /\ proc[p].rq.ep = "notification_detail"
  /\ proc[p].lookRes = "miss"
  /\ proc[p].upRes = "ok_no_alert"

\* C39: such a request is answered 404 after one upstream call, makes no
\* generative-language call and writes nothing: the store is as its lookup
\* found it, so the same request repeated now misses again and goes to the
\* upstream provider again.
C39_AlertNotFoundLeavesNoRecord ==
  \A p \in Procs :
    AlertNotFound(p) =>
      /\ proc[p].resp.status = 404
      /\ proc[p].resp.error = "Alert not found"
      /\ proc[p].up = 1
      /\ proc[p].ai = 0
      /\ proc[p].wr = 0
      /\ Len(store) = proc[p].lookLen
      /\ findInDatabase(store, ModelOf(proc[p].rq.ep), proc[p].key, now,
                        WindowOf(p)) = {}

\* The second of two detail requests found the store still empty, called
\* upstream and was answered 404.
C39_Witness ==
  \E p \in Procs :
    /\ AlertNotFound(p)
    /\ issued = 2
    /\ store = << >>
    /\ proc[p].up = 1
    /\ proc[p].resp.status = 404

====
